---- MODULE Spec2Model ----
(***************************************************************************)
(* A model of the URL library (an implementation of the WHATWG URL Living  *)
(* Standard): the basic URL parser state machine, the host parser, the URL *)
(* serializer and the URL object with its setters.                         *)
(*                                                                         *)
(* Representation.  A code point is a string token: a printable ASCII code *)
(* point is the one-character string, any other code point U+n (and the   *)
(* grave accent U+96, which the lexer does not take in a string) is the    *)
(* token "U+n" (n in decimal).  A JavaScript string is a sequence of code  *)
(* points.  A nullable value is None (<<>>) or Some(v) (<<v>>).  A host is *)
(* a record tagged with its JavaScript type: a string (domain, opaque host *)
(* or empty host), a number (IPv4) or an array (IPv6).                     *)
(***************************************************************************)
EXTENDS Integers, Sequences, FiniteSets, TLC

None == <<>>
Some(v) == <<v>>
IsNull(o) == o = None
Val(o) == o[1]

\* Body of value, with value computed once
With(value, Body(_)) == CHOOSE r \in {Body(v) : v \in {value}} : TRUE

(***************************************************************************)
(* Code points                                                             *)
(***************************************************************************)
Ascii ==
  << " ", "!", "\"", "#", "$", "%", "&", "'", "(", ")", "*", "+", ",", "-", ".", "/",
     "0", "1", "2", "3", "4", "5", "6", "7", "8", "9", ":", ";", "<", "=", ">", "?",
     "@", "A", "B", "C", "D", "E", "F", "G", "H", "I", "J", "K", "L", "M", "N", "O",
     "P", "Q", "R", "S", "T", "U", "V", "W", "X", "Y", "Z", "[", "\\", "]", "^", "_",
     "U+96", "a", "b", "c", "d", "e", "f", "g", "h", "i", "j", "k", "l", "m", "n", "o",
     "p", "q", "r", "s", "t", "u", "v", "w", "x", "y", "z", "{", "|", "}", "~" >>

PrintableCodes == 32..126

CharOf(n) == IF n \in PrintableCodes THEN Ascii[n - 31] ELSE "U+" \o ToString(n)

\* a code point outside the Basic Multilingual Plane (two UTF-16 code units)
Astral == 128512

CodeTable == [c \in {CharOf(n) : n \in 0..255} \cup {CharOf(65533), CharOf(Astral)} |->
                CHOOSE n \in (0..255) \cup {65533, Astral} : CharOf(n) = c]

CodeOf(c) == CodeTable[c]

EOF == ""

ASCIIDigit == {CharOf(n) : n \in 48..57}
ASCIIUpperAlpha == {CharOf(n) : n \in 65..90}
ASCIILowerAlpha == {CharOf(n) : n \in 97..122}
ASCIIAlpha == ASCIIUpperAlpha \cup ASCIILowerAlpha
ASCIIAlphanumeric == ASCIIDigit \cup ASCIIAlpha
ASCIIHexDigit == ASCIIDigit \cup {"A", "B", "C", "D", "E", "F", "a", "b", "c", "d", "e", "f"}

toLowerCase(c) == IF c \in ASCIIUpperAlpha THEN CharOf(CodeOf(c) + 32) ELSE c

toLowerCaseStr(s) == [i \in 1..Len(s) |-> toLowerCase(s[i])]

\* parseInt(c, R) of one digit c of radix R <= 16
DigitValue(c) ==
  IF c \in ASCIIDigit THEN CodeOf(c) - 48
  ELSE IF c \in ASCIIUpperAlpha THEN CodeOf(c) - 55
  ELSE CodeOf(c) - 87

RECURSIVE parseInt(_, _)
parseInt(s, R) ==
  IF s = <<>> THEN 0
  ELSE parseInt(SubSeq(s, 1, Len(s) - 1), R) * R + DigitValue(s[Len(s)])

HexDigits == <<"0", "1", "2", "3", "4", "5", "6", "7", "8", "9", "a", "b", "c", "d", "e", "f">>

\* Number.prototype.toString(R) of a non-negative integer
RECURSIVE numToString(_, _)
numToString(n, R) ==
  IF n < R THEN <<HexDigits[n + 1]>>
  ELSE numToString(n \div R, R) \o <<HexDigits[(n % R) + 1]>>

toUpperCase(c) == IF c \in ASCIILowerAlpha THEN CharOf(CodeOf(c) - 32) ELSE c

startsWith(s, p) == Len(s) >= Len(p) /\ SubSeq(s, 1, Len(p)) = p

endsWith(s, p) == Len(s) >= Len(p) /\ SubSeq(s, Len(s) - Len(p) + 1, Len(s)) = p

\* s.substr(n) / chars.slice(n): the string from 0-based index n on
slice(s, n) == SubSeq(s, n + 1, Len(s))

RECURSIVE join(_, _)
join(list, sep) ==
  IF list = <<>> THEN <<>>
  ELSE IF Len(list) = 1 THEN list[1]
  ELSE list[1] \o sep \o join(Tail(list), sep)

RECURSIVE split(_, _)
split(s, sep) ==
  IF \A i \in 1..Len(s) : s[i] # sep THEN <<s>>
  ELSE LET i == CHOOSE k \in 1..Len(s) : s[k] = sep /\ \A j \in 1..(k - 1) : s[j] # sep
       IN  <<SubSeq(s, 1, i - 1)>> \o split(SubSeq(s, i + 1, Len(s)), sep)

(***************************************************************************)
(* UTF-8 for the code points of the model: U+0000 to U+00FF (one or two    *)
(* bytes), U+FFFD (three bytes) and U+1F600 (four bytes).  utf8Decode maps *)
(* a well-formed sequence of these to its code point and any other byte    *)
(* to U+FFFD.                                                              *)
(***************************************************************************)
REPLACEMENT == CharOf(65533)

utf8EncodeCodePoint(c) ==
  IF c = REPLACEMENT THEN <<239, 191, 189>>
  ELSE IF c = CharOf(Astral) THEN <<240, 159, 152, 128>>
  ELSE IF CodeOf(c) < 128 THEN <<CodeOf(c)>>
  ELSE <<192 + (CodeOf(c) \div 64), 128 + (CodeOf(c) % 64)>>

RECURSIVE utf8Encode(_)
utf8Encode(s) ==
  IF s = <<>> THEN <<>> ELSE utf8EncodeCodePoint(Head(s)) \o utf8Encode(Tail(s))

RECURSIVE utf8Decode(_)
utf8Decode(bytes) ==
  IF bytes = <<>> THEN <<>>
  ELSE IF Head(bytes) < 128 THEN <<CharOf(Head(bytes))>> \o utf8Decode(Tail(bytes))
  ELSE IF Len(bytes) >= 2 /\ Head(bytes) \in {194, 195} /\ bytes[2] \in 128..191
  THEN <<CharOf((Head(bytes) - 192) * 64 + bytes[2] - 128)>> \o utf8Decode(slice(bytes, 2))
  ELSE IF Len(bytes) >= 3 /\ SubSeq(bytes, 1, 3) = <<239, 191, 189>>
  THEN <<REPLACEMENT>> \o utf8Decode(slice(bytes, 3))
  ELSE IF Len(bytes) >= 4 /\ SubSeq(bytes, 1, 4) = <<240, 159, 152, 128>>
  THEN <<CharOf(Astral)>> \o utf8Decode(slice(bytes, 4))
  ELSE <<REPLACEMENT>> \o utf8Decode(Tail(bytes))

(***************************************************************************)
(* Percent-encode sets (regular expressions of the class)                  *)
(***************************************************************************)
InC0ControlPercentEncodeSet(c) == CodeOf(c) <= 31 \/ CodeOf(c) >= 127

InFragmentPercentEncodeSet(c) ==
  c \in {" ", "\"", "<", ">", CharOf(96)} \/ InC0ControlPercentEncodeSet(c)

InPathPercentEncodeSet(c) ==
  c \in {" ", "\"", "<", ">", CharOf(96), "#", "?", "{", "}"} \/ InC0ControlPercentEncodeSet(c)

InUserInfoPercentEncodeSet(c) ==
  c \in {" ", "\"", "<", ">", CharOf(96), "#", "?", "{", "}", "/", ":", ";", "=", "@",
         "[", "]", "\\", "^", "|"} \/ InC0ControlPercentEncodeSet(c)

InPercentEncodeSet(set, c) ==
  CASE set = "c0Control" -> InC0ControlPercentEncodeSet(c)
    [] set = "fragment" -> InFragmentPercentEncodeSet(c)
    [] set = "path" -> InPathPercentEncodeSet(c)
    [] set = "userInfo" -> InUserInfoPercentEncodeSet(c)

isURLCodePoint(c) ==
  \/ c \in ASCIIAlphanumeric
  \/ c \in {"!", "$", "&", "'", "(", ")", "*", "+", ",", "-", ".", "/", ":", ";",
            "=", "?", "@", "_", "~"}
  \/ (CodeOf(c) >= 160 /\ c # REPLACEMENT)

percentEncode(value) ==
  LET h == [i \in 1..Len(numToString(value, 16)) |-> toUpperCase(numToString(value, 16)[i])]
      padded == <<"0", "0">> \o h
  IN  <<"%">> \o SubSeq(padded, Len(padded) - 1, Len(padded))

RECURSIVE percentEncodeBytes(_)
percentEncodeBytes(bytes) ==
  IF bytes = <<>> THEN <<>> ELSE percentEncode(Head(bytes)) \o percentEncodeBytes(Tail(bytes))

utf8PercentEncode(codePoint, percentEncodeSet) ==
  IF ~InPercentEncodeSet(percentEncodeSet, codePoint) THEN <<codePoint>>
  ELSE percentEncodeBytes(utf8EncodeCodePoint(codePoint))

RECURSIVE utf8PercentEncodeString(_, _)
utf8PercentEncodeString(s, percentEncodeSet) ==
  IF s = <<>> THEN <<>>
  ELSE utf8PercentEncode(Head(s), percentEncodeSet)
         \o utf8PercentEncodeString(Tail(s), percentEncodeSet)

isHexDigit(byte) ==
  (byte >= 48 /\ byte <= 57) \/ (byte >= 65 /\ byte <= 70) \/ (byte >= 97 /\ byte <= 102)

\* parseInt(str, 16) of a two code point string: the longest prefix of hex
\* digits is converted, NaN (stored in a Uint8Array as 0) when it is empty
parseIntPrefix16(b1, b2) ==
  IF ~isHexDigit(b1) THEN 0
  ELSE IF ~isHexDigit(b2) THEN DigitValue(CharOf(b1))
  ELSE DigitValue(CharOf(b1)) * 16 + DigitValue(CharOf(b2))

RECURSIVE percentDecodeFrom(_, _)
percentDecodeFrom(input, i) ==
  IF i >= Len(input) THEN <<>>
  ELSE LET byte == input[i + 1] IN
    IF byte # 37 THEN <<byte>> \o percentDecodeFrom(input, i + 1)
    ELSE IF i >= Len(input) - 2 THEN <<byte>> \o percentDecodeFrom(input, i + 1)
    ELSE IF ~isHexDigit(input[i + 2]) /\ ~isHexDigit(input[i + 3])
      THEN <<byte>> \o percentDecodeFrom(input, i + 1)
    ELSE <<parseIntPrefix16(input[i + 2], input[i + 3])>> \o percentDecodeFrom(input, i + 3)

percentDecode(input) == percentDecodeFrom(input, 0)

stringPercentDecode(input) == percentDecode(utf8Encode(input))

(***************************************************************************)
(* URL records                                                             *)
(***************************************************************************)
StrHost(s) == [type |-> "string", value |-> s]
NumHost(n) == [type |-> "number", value |-> n]
ArrHost(a) == [type |-> "array", value |-> a]

isNumber(host) == host.type = "number"
isArray(host) == host.type = "array"

EmptyHost == Some(StrHost(<<>>))

ftp == <<"f", "t", "p">>
file == <<"f", "i", "l", "e">>
http == <<"h", "t", "t", "p">>
https == <<"h", "t", "t", "p", "s">>
ws == <<"w", "s">>
wss == <<"w", "s", "s">>
localhost == <<"l", "o", "c", "a", "l", "h", "o", "s", "t">>

\* _defaultPorts, a plain object: its own keys and values
defaultPorts == {<<ftp, Some(21)>>, <<file, None>>, <<http, Some(80)>>,
                 <<https, Some(443)>>, <<ws, Some(80)>>, <<wss, Some(443)>>}

\* the property names a plain object inherits that a scheme (lowercase ASCII
\* alphanumerics, "+", "-", ".") can spell
inheritedKeys == {<<"c", "o", "n", "s", "t", "r", "u", "c", "t", "o", "r">>}

newURL ==
  [scheme |-> <<>>, username |-> <<>>, password |-> <<>>, host |-> None, port |-> None,
   path |-> <<>>, query |-> None, fragment |-> None, cannotBeABaseURLFlag |-> FALSE,
   blobURLEntry |-> None]

\* scheme in this._defaultPorts
isSpecialScheme(scheme) ==
  (\E e \in defaultPorts : e[1] = scheme) \/ scheme \in inheritedKeys

isSpecial(url) == isSpecialScheme(url.scheme)

\* stands for the function that is the value of an inherited property: no
\* port is equal to it
inheritedFunction == -1

\* this._defaultPorts[scheme] || null
defaultPort(scheme) ==
  IF \E e \in defaultPorts : e[1] = scheme
  THEN (CHOOSE e \in defaultPorts : e[1] = scheme)[2]
  ELSE IF scheme \in inheritedKeys THEN Some(inheritedFunction)
  ELSE None

includesCredentials(url) == url.username # <<>> \/ url.password # <<>>

\* cannotHaveAUsernamePasswordPort that does not look for the empty host
cannotHaveWithoutEmptyHost(url) ==
  url.host = None \/ url.cannotBeABaseURLFlag \/ url.scheme = file

\* cannotHaveAUsernamePasswordPort that does not look at the scheme
cannotHaveWithoutFile(url) ==
  url.host = None \/ url.host = EmptyHost \/ url.cannotBeABaseURLFlag

cannotHaveAUsernamePasswordPort(url) ==
  url.host = None \/ url.host = EmptyHost \/ url.cannotBeABaseURLFlag \/ url.scheme = file

(***************************************************************************)
(* Numbers beyond the checker's integers.  An IPv4 number is kept as its   *)
(* base-256 digits, least significant first, with no leading zero digit    *)
(* (zero is the empty sequence), so that values up to and beyond 2^32 are  *)
(* exact.                                                                  *)
(***************************************************************************)
RECURSIVE bigMulAdd(_, _, _)
bigMulAdd(a, m, carry) ==
  IF a = <<>>
  THEN IF carry = 0 THEN <<>> ELSE <<carry % 256>> \o bigMulAdd(<<>>, m, carry \div 256)
  ELSE LET v == Head(a) * m + carry
           rest == bigMulAdd(Tail(a), m, v \div 256)
       IN  IF v % 256 = 0 /\ rest = <<>> THEN <<>> ELSE <<v % 256>> \o rest

RECURSIVE bigAdd(_, _, _)
bigAdd(a, b, carry) ==
  IF a = <<>> /\ b = <<>> THEN (IF carry = 0 THEN <<>> ELSE <<carry>>)
  ELSE LET x == IF a = <<>> THEN 0 ELSE Head(a)
           y == IF b = <<>> THEN 0 ELSE Head(b)
           v == x + y + carry
       IN  <<v % 256>> \o bigAdd(IF a = <<>> THEN <<>> ELSE Tail(a),
                                 IF b = <<>> THEN <<>> ELSE Tail(b), v \div 256)

\* n * 256^k
bigShift(n, k) == IF n = <<>> THEN <<>> ELSE [i \in 1..k |-> 0] \o n

\* n >= 256^k
bigAtLeastPow256(n, k) == Len(n) > k

bigMod256(n) == IF n = <<>> THEN 0 ELSE Head(n)

bigDiv256(n) == IF n = <<>> THEN <<>> ELSE Tail(n)

\* parseInt(input, R) of a string of radix-R digits
RECURSIVE bigParseInt(_, _, _)
bigParseInt(input, R, acc) ==
  IF input = <<>> THEN acc
  ELSE bigParseInt(Tail(input), R, bigMulAdd(acc, R, DigitValue(Head(input))))

(***************************************************************************)
(* Serializers                                                             *)
(***************************************************************************)
RECURSIVE iPv4SerializerLoop(_, _, _)
iPv4SerializerLoop(i, n, output) ==
  IF i > 4 THEN output
  ELSE LET o1 == numToString(bigMod256(n), 10) \o output
           o2 == IF i # 4 THEN <<".">> \o o1 ELSE o1
       IN  iPv4SerializerLoop(i + 1, bigDiv256(n), o2)

iPv4Serializer(address) == iPv4SerializerLoop(1, address, <<>>)

\* the inner loop of the compress search: the zero pieces from index i on
RECURSIVE zeroRun(_, _)
zeroRun(address, j) ==
  IF j >= 8 \/ address[j + 1] # 0 THEN 0 ELSE 1 + zeroRun(address, j + 1)

\* compressSearch with the last of the longest runs found
RECURSIVE compressSearchLast(_, _, _, _)
compressSearchLast(address, i, lastIndex, lastCount) ==
  IF i >= 8 THEN <<lastIndex, lastCount>>
  ELSE IF address[i + 1] # 0 THEN compressSearchLast(address, i + 1, lastIndex, lastCount)
  ELSE IF 1 + zeroRun(address, i + 1) >= lastCount
  THEN compressSearchLast(address, i + 1, i, 1 + zeroRun(address, i + 1))
  ELSE compressSearchLast(address, i + 1, lastIndex, lastCount)

RECURSIVE compressSearch(_, _, _, _)
compressSearch(address, i, lastIndex, lastCount) ==
  IF i >= 8 THEN <<lastIndex, lastCount>>
  ELSE IF address[i + 1] # 0 THEN compressSearch(address, i + 1, lastIndex, lastCount)
  ELSE LET count == 1 + zeroRun(address, i + 1) IN
       IF count > lastCount THEN compressSearch(address, i + 1, i, count)
       ELSE compressSearch(address, i + 1, lastIndex, lastCount)

\* iPv6SerializerLoop writing ":" for a compression at the first piece too
RECURSIVE iPv6SerializerLoopOneColon(_, _, _, _, _)
iPv6SerializerLoopOneColon(address, compress, pieceIndex, ignore0, output) ==
  IF pieceIndex >= 8 THEN output
  ELSE IF ignore0 /\ address[pieceIndex + 1] = 0
    THEN iPv6SerializerLoopOneColon(address, compress, pieceIndex + 1, ignore0, output)
  ELSE IF compress = Some(pieceIndex)
    THEN iPv6SerializerLoopOneColon(address, compress, pieceIndex + 1, TRUE, output \o <<":">>)
  ELSE iPv6SerializerLoopOneColon(address, compress, pieceIndex + 1, FALSE,
         output \o numToString(address[pieceIndex + 1], 16)
                \o (IF pieceIndex # 7 THEN <<":">> ELSE <<>>))

RECURSIVE iPv6SerializerLoop(_, _, _, _, _)
iPv6SerializerLoop(address, compress, pieceIndex, ignore0, output) ==
  IF pieceIndex >= 8 THEN output
  ELSE IF ignore0 /\ address[pieceIndex + 1] = 0
    THEN iPv6SerializerLoop(address, compress, pieceIndex + 1, ignore0, output)
  ELSE IF compress = Some(pieceIndex)
    THEN iPv6SerializerLoop(address, compress, pieceIndex + 1, TRUE,
           output \o (IF pieceIndex = 0 THEN <<":", ":">> ELSE <<":">>))
  ELSE iPv6SerializerLoop(address, compress, pieceIndex + 1, FALSE,
         output \o numToString(address[pieceIndex + 1], 16)
                \o (IF pieceIndex # 7 THEN <<":">> ELSE <<>>))

iPv6Serializer(address) ==
  LET found == compressSearch(address, 0, -1, 0)
      compress == IF found[2] > 1 THEN Some(found[1]) ELSE None
  IN  iPv6SerializerLoop(address, compress, 0, FALSE, <<>>)

hostSerializer(host) ==
  IF isNumber(host) THEN iPv4Serializer(host.value)
  ELSE IF isArray(host) THEN <<"[">> \o iPv6Serializer(host.value) \o <<"]">>
  ELSE host.value

\* string concatenation of path[0]: "undefined" when the path is empty
UNDEFINED == <<"u", "n", "d", "e", "f", "i", "n", "e", "d">>

RECURSIVE pathSerialize(_)
pathSerialize(path) ==
  IF path = <<>> THEN <<>> ELSE <<"/">> \o Head(path) \o pathSerialize(Tail(path))

urlSerializer(url, excludeFragmentFlag) ==
  (url.scheme \o <<":">>)
  \o (IF url.host # None
      THEN <<"/", "/">>
           \o (IF includesCredentials(url)
               THEN url.username
                    \o (IF url.password # <<>> THEN <<":">> \o url.password ELSE <<>>)
                    \o <<"@">>
               ELSE <<>>)
           \o hostSerializer(Val(url.host))
           \o (IF url.port # None THEN <<":">> \o numToString(Val(url.port), 10) ELSE <<>>)
      ELSE IF url.host = None /\ url.scheme = file THEN <<"/", "/">>
      ELSE <<>>)
  \o (IF url.cannotBeABaseURLFlag
      THEN (IF url.path = <<>> THEN UNDEFINED ELSE url.path[1])
      ELSE pathSerialize(url.path))
  \o (IF url.query # None THEN <<"?">> \o Val(url.query) ELSE <<>>)
  \o (IF ~excludeFragmentFlag /\ url.fragment # None THEN <<"#">> \o Val(url.fragment)
      ELSE <<>>)

(***************************************************************************)
(* Host parsing                                                            *)
(***************************************************************************)
radixRDigits(R) ==
  IF R = 10 THEN ASCIIDigit
  ELSE IF R = 16 THEN ASCIIHexDigit
  ELSE {"0", "1", "2", "3", "4", "5", "6", "7"}

\* returns the number (None: failure) and whether validationErrorFlag was set
iPv4NumberParser(input0) ==
  LET hex == startsWith(input0, <<"0", "x">>) \/ startsWith(input0, <<"0", "X">>)
      oct == ~hex /\ Len(input0) >= 2 /\ input0[1] = "0"
      input == IF hex THEN slice(input0, 2) ELSE IF oct THEN slice(input0, 1) ELSE input0
      R == IF hex THEN 16 ELSE IF oct THEN 8 ELSE 10
  IN  IF input = <<>> THEN [n |-> Some(<<>>), flag |-> hex \/ oct]
      ELSE IF \E i \in 1..Len(input) : input[i] \notin radixRDigits(R)
        THEN [n |-> None, flag |-> hex \/ oct]
      ELSE [n |-> Some(bigParseInt(input, R, <<>>)), flag |-> hex \/ oct]

\* iPv4Fold with 256^(2 - counter)
RECURSIVE iPv4FoldFrom2(_, _, _)
iPv4FoldFrom2(numbers, counter, ipv4) ==
  IF numbers = <<>> THEN ipv4
  ELSE iPv4FoldFrom2(Tail(numbers), counter + 1,
                     bigAdd(ipv4, bigShift(Head(numbers), 2 - counter), 0))

RECURSIVE iPv4Fold(_, _, _)
iPv4Fold(numbers, counter, ipv4) ==
  IF numbers = <<>> THEN ipv4
  ELSE iPv4Fold(Tail(numbers), counter + 1,
                bigAdd(ipv4, bigShift(Head(numbers), 3 - counter), 0))

\* kind "input": not an IPv4 address, the input is a domain; "number": the
\* address; "failure".  verr: the validation errors reported.
iPv4Parser(input) ==
  With(split(input, "."), LAMBDA parts0 :
  With(parts0[Len(parts0)] = <<>>, LAMBDA lastEmpty :
  With(IF lastEmpty /\ Len(parts0) > 1 THEN SubSeq(parts0, 1, Len(parts0) - 1) ELSE parts0,
       LAMBDA parts :
    IF Len(parts) > 4 THEN [kind |-> "input", value |-> <<>>, verr |-> 0]
    ELSE IF \E i \in 1..Len(parts) : parts[i] = <<>>
    THEN [kind |-> "input", value |-> <<>>, verr |-> 0]
    ELSE
      With([i \in 1..Len(parts) |-> iPv4NumberParser(parts[i])], LAMBDA parsed :
        IF \E i \in 1..Len(parts) : parsed[i].n = None
        THEN [kind |-> "input", value |-> <<>>, verr |-> 0]
        ELSE
          With([i \in 1..Len(parts) |-> Val(parsed[i].n)], LAMBDA numbers :
          With(IF lastEmpty \/ \E i \in 1..Len(parts) : parsed[i].flag THEN 1 ELSE 0,
               LAMBDA e1 :
          With({i \in 1..Len(numbers) : bigAtLeastPow256(numbers[i], 1)}, LAMBDA big :
            IF \E i \in big : i < Len(numbers)
            THEN [kind |-> "failure", value |-> <<>>, verr |-> e1 + 1]
            ELSE IF bigAtLeastPow256(numbers[Len(numbers)], 5 - Len(numbers))
            THEN [kind |-> "failure", value |-> <<>>, verr |-> e1 + Cardinality(big) + 1]
            ELSE [kind |-> "number",
                  value |-> iPv4Fold(SubSeq(numbers, 1, Len(numbers) - 1), 0,
                                     numbers[Len(numbers)]),
                  verr |-> e1 + Cardinality(big)])))))))

\* the current code point of a walker over input: EOF past the end
cAt(input, pointer) == IF pointer >= Len(input) THEN EOF ELSE input[pointer + 1]

\* step 6.4: up to four hex digits from pointer on
RECURSIVE iPv6Hex(_, _, _, _)
iPv6Hex(input, pointer, value, length) ==
  IF length < 4 /\ cAt(input, pointer) \in ASCIIHexDigit
  THEN iPv6Hex(input, pointer + 1, value * 16 + DigitValue(cAt(input, pointer)), length + 1)
  ELSE [value |-> value, length |-> length, pointer |-> pointer]

\* step 6.5.5.4: the digits of one IPv4 piece
RECURSIVE iPv6Digits(_, _, _)
iPv6Digits(input, pointer, ipv4Piece) ==
  IF cAt(input, pointer) \notin ASCIIDigit THEN [ok |-> TRUE, piece |-> ipv4Piece, pointer |-> pointer]
  ELSE IF ipv4Piece # None /\ Val(ipv4Piece) = 0
    THEN [ok |-> FALSE, piece |-> None, pointer |-> pointer]
  ELSE With(DigitValue(cAt(input, pointer)), LAMBDA number :
         With(IF ipv4Piece = None THEN number ELSE Val(ipv4Piece) * 10 + number, LAMBDA piece :
           IF piece > 255 THEN [ok |-> FALSE, piece |-> None, pointer |-> pointer]
           ELSE iPv6Digits(input, pointer + 1, Some(piece))))

\* step 6.5.5: the dotted-quad tail
RECURSIVE iPv6Tail(_, _, _, _, _)
iPv6Tail(input, pointer, address, pieceIndex, numbersSeen) ==
  IF cAt(input, pointer) = EOF
  THEN [ok |-> numbersSeen = 4, address |-> address, pieceIndex |-> pieceIndex]
  ELSE IF numbersSeen > 0 /\ ~(cAt(input, pointer) = "." /\ numbersSeen < 4)
    THEN [ok |-> FALSE, address |-> address, pieceIndex |-> pieceIndex]
  ELSE With(IF numbersSeen > 0 THEN pointer + 1 ELSE pointer, LAMBDA p1 :
    IF cAt(input, p1) \notin ASCIIDigit
    THEN [ok |-> FALSE, address |-> address, pieceIndex |-> pieceIndex]
    ELSE With(iPv6Digits(input, p1, None), LAMBDA d :
      IF ~d.ok THEN [ok |-> FALSE, address |-> address, pieceIndex |-> pieceIndex]
      ELSE iPv6Tail(input, d.pointer,
             [address EXCEPT ![pieceIndex + 1] = @ * 256 + Val(d.piece)],
             IF numbersSeen + 1 \in {2, 4} THEN pieceIndex + 1 ELSE pieceIndex,
             numbersSeen + 1)))

\* step 7.3: the swaps that move the pieces after the compression to the end
RECURSIVE iPv6Swap(_, _, _, _)
iPv6Swap(address, compress, pieceIndex, swaps) ==
  IF pieceIndex # 0 /\ swaps > 0
  THEN iPv6Swap([address EXCEPT ![pieceIndex + 1] = address[compress + swaps],
                                ![compress + swaps] = address[pieceIndex + 1]],
                compress, pieceIndex - 1, swaps - 1)
  ELSE address

iPv6Finish(address, pieceIndex, compress) ==
  IF compress # None
  THEN Some(iPv6Swap(address, Val(compress), 7, pieceIndex - Val(compress)))
  ELSE IF pieceIndex # 8 THEN None
  ELSE Some(address)

\* step 6: the main loop
RECURSIVE iPv6Loop(_, _, _, _, _)
iPv6Loop(input, pointer, address, pieceIndex, compress) ==
  IF cAt(input, pointer) = EOF THEN iPv6Finish(address, pieceIndex, compress)
  ELSE IF pieceIndex = 8 THEN None
  ELSE IF cAt(input, pointer) = ":"
    THEN IF compress # None THEN None
         ELSE iPv6Loop(input, pointer + 1, address, pieceIndex + 1, Some(pieceIndex + 1))
  ELSE With(iPv6Hex(input, pointer, 0, 0), LAMBDA h :
    IF cAt(input, h.pointer) = "."
    THEN IF h.length = 0 THEN None
         ELSE IF pieceIndex > 6 THEN None
         ELSE With(iPv6Tail(input, h.pointer - h.length, address, pieceIndex, 0), LAMBDA t :
                IF ~t.ok THEN None ELSE iPv6Finish(t.address, t.pieceIndex, compress))
    ELSE IF cAt(input, h.pointer) = ":" /\ cAt(input, h.pointer + 1) = EOF THEN None
    ELSE IF cAt(input, h.pointer) \notin {":", EOF} THEN None
    ELSE iPv6Loop(input, IF cAt(input, h.pointer) = ":" THEN h.pointer + 1 ELSE h.pointer,
                  [address EXCEPT ![pieceIndex + 1] = h.value], pieceIndex + 1, compress))

\* None: failure (every failure reports one validation error)
iPv6Parser(input) ==
  IF cAt(input, 0) = ":" /\ ~startsWith(slice(input, 1), <<":">>) THEN None
  ELSE With(cAt(input, 0) = ":", LAMBDA compressed :
         iPv6Loop(input, IF compressed THEN 2 ELSE 0, <<0, 0, 0, 0, 0, 0, 0, 0>>,
                  IF compressed THEN 1 ELSE 0, IF compressed THEN Some(1) ELSE None))

\* forbiddenChars in opaqueHostParser
opaqueForbiddenChars ==
  {CharOf(0), CharOf(9), CharOf(12), CharOf(13), " ", "#", "/", ":", "?", "@", "[", "\\", "]"}

opaqueHostParser(input) ==
  IF \E i \in 1..Len(input) : input[i] \in opaqueForbiddenChars THEN None
  ELSE Some(utf8PercentEncodeString(input, "c0Control"))

\* Unicode ToASCII of the uts46 package (UseSTD3ASCIIRules, CheckHyphens and
\* VerifyDnsLength false) on the domains the model reaches: an ASCII domain
\* with no "xn--" label is valid and is lowercased; U+FFFD is disallowed.
domainToASCII(domain) ==
  IF \E i \in 1..Len(domain) : CodeOf(domain[i]) >= 128 THEN None
  ELSE Some(toLowerCaseStr(domain))

\* _forbiddenHostCodePoint, a regular expression with the g flag
forbiddenHostCodePoint ==
  {CharOf(0), CharOf(9), CharOf(12), CharOf(13), " ", "#", "%", "/", ":", "?", "@",
   "[", "\\", "]"}

\* RegExp.prototype.test of a global regular expression that matches one code
\* point of set: the search starts at lastIndex, a match sets lastIndex after
\* it, no match resets lastIndex to 0
regExpTestGlobal(set, str, lastIndex) ==
  LET hits == {i \in lastIndex..(Len(str) - 1) : str[i + 1] \in set} IN
  IF hits = {} THEN [found |-> FALSE, lastIndex |-> 0]
  ELSE [found |-> TRUE, lastIndex |-> (CHOOSE i \in hits : \A j \in hits : i <= j) + 1]

\* host: None on failure; lastIndex: that of _forbiddenHostCodePoint after
\* the call; verr: the validation errors reported
hostParser(input, isNotSpecial, lastIndex) ==
  IF startsWith(input, <<"[">>)
  THEN IF ~endsWith(input, <<"]">>) THEN [host |-> None, lastIndex |-> lastIndex, verr |-> 1]
       ELSE With(iPv6Parser(SubSeq(input, 2, Len(input) - 1)), LAMBDA a :
              IF a = None THEN [host |-> None, lastIndex |-> lastIndex, verr |-> 1]
              ELSE [host |-> Some(ArrHost(Val(a))), lastIndex |-> lastIndex, verr |-> 0])
  ELSE IF isNotSpecial
  THEN With(opaqueHostParser(input), LAMBDA o :
         IF o = None THEN [host |-> None, lastIndex |-> lastIndex, verr |-> 1]
         ELSE [host |-> Some(StrHost(Val(o))), lastIndex |-> lastIndex, verr |-> 0])
  ELSE
    With(domainToASCII(utf8Decode(stringPercentDecode(input))), LAMBDA asciiDomain :
      IF asciiDomain = None THEN [host |-> None, lastIndex |-> lastIndex, verr |-> 2]
      ELSE
        With(regExpTestGlobal(forbiddenHostCodePoint, Val(asciiDomain), lastIndex), LAMBDA t :
          IF t.found THEN [host |-> None, lastIndex |-> t.lastIndex, verr |-> 1]
          ELSE
            With(iPv4Parser(Val(asciiDomain)), LAMBDA ipv4Host :
              IF ipv4Host.kind = "failure"
              THEN [host |-> None, lastIndex |-> t.lastIndex, verr |-> ipv4Host.verr]
              ELSE IF ipv4Host.kind = "number"
              THEN [host |-> Some(NumHost(ipv4Host.value)), lastIndex |-> t.lastIndex,
                    verr |-> ipv4Host.verr]
              ELSE [host |-> Some(StrHost(Val(asciiDomain))), lastIndex |-> t.lastIndex,
                    verr |-> ipv4Host.verr])))

(***************************************************************************)
(* Path segments and Windows drive letters                                 *)
(***************************************************************************)
\* isSingleDotPathSegment without toLowerCase
isSingleDotExact(str) == str = <<".">> \/ str = <<"%", "2", "e">>

isSingleDotPathSegment(str) == str = <<".">> \/ toLowerCaseStr(str) = <<"%", "2", "e">>

isDoubleDotPathSegment(str) ==
  LET lowerStr == toLowerCaseStr(str) IN
  \/ lowerStr = <<".", ".">>
  \/ lowerStr = <<".", "%", "2", "e">>
  \/ lowerStr = <<"%", "2", "e", ".">>
  \/ lowerStr = <<"%", "2", "e", "%", "2", "e">>

isNormalizedWindowsDriveLetter(str) ==
  Len(str) >= 2 /\ str[1] \in ASCIIAlpha /\ str[2] = ":"

isWindowsDriveLetter(str) ==
  Len(str) >= 2 /\ str[1] \in ASCIIAlpha /\ (str[2] = ":" \/ str[2] = "|")

startsWithAWindowsDriveLetter(str) ==
  Len(str) >= 2 /\ isWindowsDriveLetter(str) /\
  (Len(str) = 2 \/ str[3] \in {"/", "\\", "?", "#"})

shorten(url) ==
  IF Len(url.path) = 0 THEN url
  ELSE IF url.scheme = file /\ Len(url.path) = 1 /\ isNormalizedWindowsDriveLetter(url.path[1])
    THEN url
  ELSE [url EXCEPT !.path = SubSeq(url.path, 1, Len(url.path) - 1)]

\* Array.prototype.toString: the elements joined by ","
arrayToString(arr) == join([i \in 1..Len(arr) |-> <<arr[i]>>], <<",">>)

\* bufferCodePoints.slice(0, 1) + ':' + bufferCodePoints.slice(2)
driveLetterQuirk(buffer) ==
  arrayToString(SubSeq(buffer, 1, 1)) \o <<":">> \o arrayToString(SubSeq(buffer, 3, Len(buffer)))

(***************************************************************************)
(* The basic URL parser.  A machine m holds the parser's arguments and     *)
(* locals; ret is "none" while the loop runs, "url" once it has returned   *)
(* url and "failure" once it has returned failure.  lastIndex is the state *)
(* of the class's _forbiddenHostCodePoint, verr counts validation errors.  *)
(***************************************************************************)
ParserStates ==
  {"SchemeStart", "Scheme", "NoScheme", "SpecialRelativeOrAuthority", "PathOrAuthority",
   "Relative", "RelativeSlash", "SpecialAuthoritySlashes", "SpecialAuthorityIgnoreSlashes",
   "Authority", "Host", "Hostname", "Port", "File", "FileSlash", "FileHost", "PathStart",
   "Path", "CannotBeABaseURLPath", "Query", "Fragment"}

given(stateOverride) == stateOverride # "undefined"

\* "|| stateOverride": the enum value of SchemeStart is 0
truthy(stateOverride) == stateOverride # "undefined" /\ stateOverride # "SchemeStart"

\* StringWalker
eof(m) == m.pointer >= Len(m.input)

c(m) ==
  IF eof(m) THEN EOF
  ELSE IF m.pointer < 0 THEN "undefined"
  ELSE m.input[m.pointer + 1]

jsSlice(chars, n) ==
  IF n >= 0 THEN SubSeq(chars, n + 1, Len(chars))
  ELSE SubSeq(chars, (IF Len(chars) + n > 0 THEN Len(chars) + n ELSE 0) + 1, Len(chars))

remaining(m) == IF eof(m) THEN <<>> ELSE jsSlice(m.input, m.pointer + 1)

substring(m) == IF eof(m) THEN <<>> ELSE jsSlice(m.input, m.pointer)

\* String.prototype.length: UTF-16 code units
utf16Length(str) ==
  Len(str) + Cardinality({i \in 1..Len(str) : CodeOf(str[i]) > 65535})

\* a validation error that ends the parsing when it is reported
validationErrorFails(m) ==
  IF m.callback THEN [m EXCEPT !.verr = @ + 1, !.ret = "failure"] ELSE m

\* the callback is invoked only when one was given to the constructor; verr
\* counts the messages it receives
validationError(m) == IF m.callback THEN [m EXCEPT !.verr = @ + 1] ELSE m

\* n validation errors raised by a parser called from a state
heard(m, n) == IF m.callback THEN n ELSE 0

validationErrorIf(cond, m) == IF cond THEN validationError(m) ELSE m

returnFailure(m) == [m EXCEPT !.ret = "failure"]

returnUrl(m) == [m EXCEPT !.ret = "url"]

percentNotFollowedByHex(m) ==
  c(m) = "%" /\ ~(Len(remaining(m)) >= 2 /\ remaining(m)[1] \in ASCIIHexDigit
                                        /\ remaining(m)[2] \in ASCIIHexDigit)

SchemeStartState(m) ==
  IF c(m) \in ASCIIAlpha
  THEN [m EXCEPT !.buffer = @ \o <<toLowerCase(c(m))>>, !.state = "Scheme"]
  ELSE IF ~given(m.stateOverride)
  THEN [m EXCEPT !.state = "NoScheme", !.pointer = @ - 1]
  ELSE returnFailure(validationError(m))

\* schemeOverrideReturns without its third condition
returnsWithoutFileRule(url, buffer) ==
  \/ isSpecialScheme(url.scheme) /\ ~isSpecialScheme(buffer)
  \/ ~isSpecialScheme(url.scheme) /\ isSpecialScheme(buffer)
  \/ url.scheme = file /\ (url.host = EmptyHost \/ url.host = None)

\* schemeOverrideReturns without its fourth condition
returnsWithoutHostRule(url, buffer) ==
  \/ isSpecialScheme(url.scheme) /\ ~isSpecialScheme(buffer)
  \/ ~isSpecialScheme(url.scheme) /\ isSpecialScheme(buffer)
  \/ (includesCredentials(url) \/ url.port # None) /\ buffer = file

\* schemeOverrideReturns without its second condition
returnsWithoutSpecialRule(url, buffer) ==
  \/ isSpecialScheme(url.scheme) /\ ~isSpecialScheme(buffer)
  \/ (includesCredentials(url) \/ url.port # None) /\ buffer = file
  \/ url.scheme = file /\ (url.host = EmptyHost \/ url.host = None)

\* with a state override: the four conditions on which url is returned as
\* it is
schemeOverrideReturns(url, buffer) ==
  \/ isSpecialScheme(url.scheme) /\ ~isSpecialScheme(buffer)
  \/ ~isSpecialScheme(url.scheme) /\ isSpecialScheme(buffer)
  \/ (includesCredentials(url) \/ url.port # None) /\ buffer = file
  \/ url.scheme = file /\ (url.host = EmptyHost \/ url.host = None)

\* schemeOverridePort that leaves the port alone
keepsPort(url) == url

\* with a state override: a port that is the new scheme's default becomes null
schemeOverridePort(url) ==
  IF url.port = defaultPort(url.scheme) THEN [url EXCEPT !.port = None] ELSE url

\* the restart of step 3 going back to the scheme start state
startOverInSchemeStart(m) ==
  [m EXCEPT !.buffer = <<>>, !.state = "SchemeStart", !.pointer = 0, !.continue = TRUE]

\* step 3 of the scheme state: start over from the first code point
startOver(m) ==
  [m EXCEPT !.buffer = <<>>, !.state = "NoScheme", !.pointer = 0, !.continue = TRUE]

SchemeState(m) ==
  IF c(m) \in ASCIIAlphanumeric \/ c(m) = "+" \/ c(m) = "-" \/ c(m) = "."
  THEN [m EXCEPT !.buffer = @ \o <<toLowerCase(c(m))>>]
  ELSE IF c(m) = ":"
  THEN
    IF given(m.stateOverride) /\ schemeOverrideReturns(m.url, m.buffer)
    THEN returnUrl(m)
    ELSE
      LET u == [m.url EXCEPT !.scheme = m.buffer] IN
      IF given(m.stateOverride)
      THEN returnUrl([m EXCEPT !.url = schemeOverridePort(u)])
      ELSE
        LET m1 == [m EXCEPT !.url = u, !.buffer = <<>>] IN
        IF u.scheme = file
        THEN [validationErrorIf(~startsWith(remaining(m), <<"/", "/">>), m1)
                EXCEPT !.state = "File"]
        ELSE IF isSpecial(u) /\ m.base # None /\ Val(m.base).scheme = u.scheme
        THEN [m1 EXCEPT !.state = "SpecialRelativeOrAuthority"]
        ELSE IF isSpecial(u)
        THEN [m1 EXCEPT !.state = "SpecialAuthoritySlashes"]
        ELSE IF startsWith(remaining(m), <<"/">>)
        THEN [m1 EXCEPT !.state = "PathOrAuthority", !.pointer = @ + 1]
        ELSE [m1 EXCEPT !.url.cannotBeABaseURLFlag = TRUE,
                        !.url.path = @ \o <<<<>>>>,
                        !.state = "CannotBeABaseURLPath"]
  ELSE IF ~given(m.stateOverride)
  THEN startOver(m)
  ELSE returnFailure(validationError(m))

NoSchemeState(m) ==
  IF m.base = None \/ (Val(m.base).cannotBeABaseURLFlag /\ c(m) # "#")
  THEN returnFailure(validationError(m))
  ELSE IF Val(m.base).cannotBeABaseURLFlag /\ c(m) = "#"
  THEN [m EXCEPT !.url.scheme = Val(m.base).scheme,
                 !.url.path = Val(m.base).path,
                 !.url.query = Val(m.base).query,
                 !.url.fragment = Some(<<>>),
                 !.url.cannotBeABaseURLFlag = TRUE,
                 !.state = "Fragment"]
  ELSE IF Val(m.base).scheme # file
  THEN [m EXCEPT !.state = "Relative", !.pointer = @ - 1]
  ELSE [m EXCEPT !.state = "File", !.pointer = @ - 1]

SpecialRelativeOrAuthorityState(m) ==
  IF c(m) = "/" /\ startsWith(remaining(m), <<"/">>)
  THEN [m EXCEPT !.state = "SpecialAuthorityIgnoreSlashes", !.pointer = @ + 1]
  ELSE [validationError(m) EXCEPT !.state = "Relative", !.pointer = @ - 1]

PathOrAuthorityState(m) ==
  IF c(m) = "/" THEN [m EXCEPT !.state = "Authority"]
  ELSE [m EXCEPT !.state = "Path", !.pointer = @ - 1]

\* url's username, password, host and port set to base's
copyAuthority(url, baseURL) ==
  [url EXCEPT !.username = baseURL.username, !.password = baseURL.password,
              !.host = baseURL.host, !.port = baseURL.port]

RelativeState(m) ==
  IF m.base = None THEN [m EXCEPT !.ret = "throw"]
  ELSE
    LET baseURL == Val(m.base)
        u == [m.url EXCEPT !.scheme = baseURL.scheme]
        copied == [copyAuthority(u, baseURL) EXCEPT !.path = baseURL.path]
    IN  CASE c(m) = EOF -> [m EXCEPT !.url = [copied EXCEPT !.query = baseURL.query]]
          [] c(m) = "/" -> [m EXCEPT !.url = u, !.state = "RelativeSlash"]
          [] c(m) = "?" -> [m EXCEPT !.url = [copied EXCEPT !.query = Some(<<>>)],
                                     !.state = "Query"]
          [] c(m) = "#" -> [m EXCEPT !.url = [copied EXCEPT !.query = baseURL.query,
                                                            !.fragment = Some(<<>>)],
                                     !.state = "Fragment"]
          [] OTHER ->
               IF isSpecial(u) /\ c(m) = "\\"
               THEN [validationError(m) EXCEPT !.url = u, !.state = "RelativeSlash"]
               ELSE [m EXCEPT !.url = [copied EXCEPT !.path =
                                         IF Len(baseURL.path) # 0
                                         THEN SubSeq(baseURL.path, 1, Len(baseURL.path) - 1)
                                         ELSE baseURL.path],
                              !.state = "Path", !.pointer = @ - 1]

RelativeSlashState(m) ==
  IF isSpecial(m.url) /\ (c(m) = "/" \/ c(m) = "\\")
  THEN [validationErrorIf(c(m) = "\\", m) EXCEPT !.state = "SpecialAuthorityIgnoreSlashes"]
  ELSE IF c(m) = "/" THEN [m EXCEPT !.state = "Authority"]
  ELSE IF m.base = None THEN [m EXCEPT !.ret = "throw"]
  ELSE [m EXCEPT !.url = copyAuthority(m.url, Val(m.base)),
                 !.state = "Path", !.pointer = @ - 1]

SpecialAuthoritySlashesState(m) ==
  IF c(m) = "/" /\ startsWith(remaining(m), <<"/">>)
  THEN [m EXCEPT !.state = "SpecialAuthorityIgnoreSlashes", !.pointer = @ + 1]
  ELSE [validationError(m) EXCEPT !.state = "SpecialAuthorityIgnoreSlashes",
                                  !.pointer = @ - 1]

SpecialAuthorityIgnoreSlashesState(m) ==
  IF c(m) # "/" /\ c(m) # "\\"
  THEN [m EXCEPT !.state = "Authority", !.pointer = @ - 1]
  ELSE validationError(m)

\* step 1.4 of the authority state: the code points of buffer go to the
\* username until the first ":" seen, to the password after it
RECURSIVE authorityCredentials(_, _)
authorityCredentials(buffer, m) ==
  IF buffer = <<>> THEN m
  ELSE IF Head(buffer) = ":" /\ ~m.passwordTokenSeenFlag
    THEN authorityCredentials(Tail(buffer), [m EXCEPT !.passwordTokenSeenFlag = TRUE])
  ELSE LET encodedCodePoints == utf8PercentEncode(Head(buffer), "userInfo") IN
    IF m.passwordTokenSeenFlag
    THEN authorityCredentials(Tail(buffer), [m EXCEPT !.url.password = @ \o encodedCodePoints])
    ELSE authorityCredentials(Tail(buffer), [m EXCEPT !.url.username = @ \o encodedCodePoints])

\* the authority state without step 1.2: "%40" is never prepended
AuthorityStateWithoutPrepend(m) ==
  IF c(m) = "@"
  THEN [authorityCredentials(m.buffer, [validationError(m) EXCEPT !.atFlag = TRUE])
          EXCEPT !.buffer = <<>>]
  ELSE IF c(m) \in {EOF, "/", "?", "#"} \/ (isSpecial(m.url) /\ c(m) = "\\")
  THEN IF m.atFlag /\ m.buffer = <<>>
       THEN returnFailure(validationError(m))
       ELSE [m EXCEPT !.pointer = @ - (utf16Length(m.buffer) + 1),
                      !.buffer = <<>>, !.state = "Host"]
  ELSE [m EXCEPT !.buffer = @ \o <<c(m)>>]

AuthorityState(m) ==
  IF c(m) = "@"
  THEN LET buffer == IF m.atFlag THEN <<"%", "4", "0">> \o m.buffer ELSE m.buffer
           m1 == [validationError(m) EXCEPT !.atFlag = TRUE]
       IN  [authorityCredentials(buffer, m1) EXCEPT !.buffer = <<>>]
  ELSE IF c(m) \in {EOF, "/", "?", "#"} \/ (isSpecial(m.url) /\ c(m) = "\\")
  THEN IF m.atFlag /\ m.buffer = <<>>
       THEN returnFailure(validationError(m))
       ELSE [m EXCEPT !.pointer = @ - (utf16Length(m.buffer) + 1),
                      !.buffer = <<>>, !.state = "Host"]
  ELSE [m EXCEPT !.buffer = @ \o <<c(m)>>]

HostState(m) ==
  IF given(m.stateOverride) /\ m.url.scheme = file
  THEN [m EXCEPT !.pointer = @ - 1, !.state = "FileHost"]
  ELSE IF c(m) = ":" /\ ~m.arrayFlag
  THEN IF m.buffer = <<>> THEN returnFailure(validationError(m))
       ELSE LET setHost(h) ==
                  IF h.host = None
                  THEN returnFailure([m EXCEPT !.lastIndex = h.lastIndex, !.verr = @ + heard(m, h.verr)])
                  ELSE IF m.stateOverride = "Hostname"
                  THEN returnUrl([m EXCEPT !.lastIndex = h.lastIndex, !.verr = @ + heard(m, h.verr),
                                           !.url.host = h.host, !.buffer = <<>>,
                                           !.state = "Port"])
                  ELSE [m EXCEPT !.lastIndex = h.lastIndex, !.verr = @ + heard(m, h.verr),
                                 !.url.host = h.host, !.buffer = <<>>, !.state = "Port"]
            IN  setHost(hostParser(m.buffer, ~isSpecial(m.url), m.lastIndex))
  ELSE IF c(m) \in {EOF, "/", "?", "#"} \/ (isSpecial(m.url) /\ c(m) = "\\")
  THEN IF isSpecial(m.url) /\ m.buffer = <<>>
       THEN returnFailure(validationError([m EXCEPT !.pointer = @ - 1]))
       ELSE IF given(m.stateOverride) /\ m.buffer = <<>> /\
               (includesCredentials(m.url) \/ m.url.port # None)
       THEN returnUrl(validationError([m EXCEPT !.pointer = @ - 1]))
       ELSE LET setHost(h) ==
                  IF h.host = None
                  THEN returnFailure([m EXCEPT !.pointer = @ - 1, !.lastIndex = h.lastIndex,
                                               !.verr = @ + heard(m, h.verr)])
                  ELSE IF given(m.stateOverride)
                  THEN returnUrl([m EXCEPT !.pointer = @ - 1, !.lastIndex = h.lastIndex,
                                           !.verr = @ + heard(m, h.verr), !.url.host = h.host,
                                           !.buffer = <<>>, !.state = "PathStart"])
                  ELSE [m EXCEPT !.pointer = @ - 1, !.lastIndex = h.lastIndex,
                                 !.verr = @ + heard(m, h.verr), !.url.host = h.host,
                                 !.buffer = <<>>, !.state = "PathStart"]
            IN  setHost(hostParser(m.buffer, ~isSpecial(m.url), m.lastIndex))
  ELSE [m EXCEPT !.arrayFlag = IF c(m) = "[" THEN TRUE ELSE IF c(m) = "]" THEN FALSE ELSE @,
                 !.buffer = @ \o <<c(m)>>]

\* (port === this.defaultPort(url.scheme) ? null : port)
portOrNull(port, scheme) == IF Some(port) = defaultPort(scheme) THEN None ELSE Some(port)

\* PortState that stores the port before it compares it with 65535
PortStateStoresFirst(m) ==
  IF c(m) \in ASCIIDigit THEN [m EXCEPT !.buffer = @ \o <<c(m)>>]
  ELSE IF c(m) \in {EOF, "/", "?", "#"} \/ (isSpecial(m.url) /\ c(m) = "\\")
          \/ truthy(m.stateOverride)
  THEN
    LET port == parseInt(m.buffer, 10)
        m1 == IF m.buffer # <<>>
              THEN [m EXCEPT !.url.port = portOrNull(port, m.url.scheme)]
              ELSE m
    IN
    IF m.buffer # <<>> /\ port > 65535 THEN returnFailure(validationError(m1))
    ELSE IF given(m.stateOverride) THEN returnUrl([m1 EXCEPT !.buffer = <<>>])
    ELSE [m1 EXCEPT !.buffer = <<>>, !.state = "PathStart", !.pointer = @ - 1]
  ELSE returnFailure(validationError(m))

\* PortState with 65536 accepted
PortStateTo65536(m) ==
  IF c(m) \in ASCIIDigit THEN [m EXCEPT !.buffer = @ \o <<c(m)>>]
  ELSE IF c(m) \in {EOF, "/", "?", "#"} \/ (isSpecial(m.url) /\ c(m) = "\\")
          \/ truthy(m.stateOverride)
  THEN
    LET port == parseInt(m.buffer, 10) IN
    IF m.buffer # <<>> /\ port > 65536 THEN returnFailure(validationError(m))
    ELSE
      LET m1 == IF m.buffer # <<>>
                THEN [m EXCEPT !.url.port = portOrNull(port, m.url.scheme),
                               !.buffer = <<>>]
                ELSE m
      IN  IF given(m.stateOverride) THEN returnUrl(m1)
          ELSE [m1 EXCEPT !.state = "PathStart", !.pointer = @ - 1]
  ELSE returnFailure(validationError(m))

PortState(m) ==
  IF c(m) \in ASCIIDigit THEN [m EXCEPT !.buffer = @ \o <<c(m)>>]
  ELSE IF c(m) \in {EOF, "/", "?", "#"} \/ (isSpecial(m.url) /\ c(m) = "\\")
          \/ truthy(m.stateOverride)
  THEN
    LET port == parseInt(m.buffer, 10) IN
    IF m.buffer # <<>> /\ port > 65535 THEN returnFailure(validationError(m))
    ELSE
      LET m1 == IF m.buffer # <<>>
                THEN [m EXCEPT !.url.port = portOrNull(port, m.url.scheme),
                               !.buffer = <<>>]
                ELSE m
      IN  IF given(m.stateOverride) THEN returnUrl(m1)
          ELSE [m1 EXCEPT !.state = "PathStart", !.pointer = @ - 1]
  ELSE returnFailure(validationError(m))

FileState(m) ==
  LET m0 == [m EXCEPT !.url.scheme = file] IN
  IF c(m) = "/" \/ c(m) = "\\"
  THEN [validationErrorIf(c(m) = "\\", m0) EXCEPT !.state = "FileSlash"]
  ELSE IF m.base # None /\ Val(m.base).scheme = file
  THEN
    LET baseURL == Val(m.base)
        copied == [m0.url EXCEPT !.host = baseURL.host, !.path = baseURL.path]
    IN  CASE c(m) = EOF -> [m0 EXCEPT !.url = [copied EXCEPT !.query = baseURL.query]]
          [] c(m) = "?" -> [m0 EXCEPT !.url = [copied EXCEPT !.query = Some(<<>>)],
                                      !.state = "Query"]
          [] c(m) = "#" -> [m0 EXCEPT !.url = [copied EXCEPT !.query = baseURL.query,
                                                             !.fragment = Some(<<>>)],
                                      !.state = "Fragment"]
          [] OTHER ->
               IF ~startsWithAWindowsDriveLetter(substring(m))
               THEN [m0 EXCEPT !.url = shorten(copied), !.state = "Path", !.pointer = @ - 1]
               ELSE [validationError(m0) EXCEPT !.state = "Path", !.pointer = @ - 1]
  ELSE [m0 EXCEPT !.state = "Path", !.pointer = @ - 1]

FileSlashState(m) ==
  IF c(m) = "/" \/ c(m) = "\\"
  THEN [validationErrorIf(c(m) = "\\", m) EXCEPT !.state = "FileHost"]
  ELSE IF m.base # None /\ Val(m.base).scheme = file
          /\ ~startsWithAWindowsDriveLetter(substring(m))
  THEN \* isNormalizedWindowsDriveLetter(undefined) throws a TypeError
       IF Val(m.base).path = <<>> THEN [m EXCEPT !.ret = "throw"]
       ELSE IF isNormalizedWindowsDriveLetter(Val(m.base).path[1])
       THEN [m EXCEPT !.url.path = @ \o <<Val(m.base).path[1]>>,
                      !.state = "Path", !.pointer = @ - 1]
       ELSE [m EXCEPT !.url.host = Val(m.base).host, !.state = "Path", !.pointer = @ - 1]
  ELSE [m EXCEPT !.state = "Path", !.pointer = @ - 1]

FileHostState(m) ==
  IF c(m) \in {EOF, "/", "\\", "?", "#"}
  THEN
    LET m0 == [m EXCEPT !.pointer = @ - 1] IN
    IF ~given(m.stateOverride) /\ isWindowsDriveLetter(m.buffer)
    THEN [validationError(m0) EXCEPT !.state = "Path"]
    ELSE IF m.buffer = <<>>
    THEN LET m1 == [m0 EXCEPT !.url.host = EmptyHost] IN
         IF given(m.stateOverride) THEN returnUrl(m1)
         ELSE [m1 EXCEPT !.state = "PathStart"]
    ELSE
      LET setHost(h) ==
            IF h.host = None
            THEN returnFailure([m0 EXCEPT !.lastIndex = h.lastIndex, !.verr = @ + heard(m0, h.verr)])
            ELSE IF given(m.stateOverride)
            THEN returnUrl([m0 EXCEPT !.lastIndex = h.lastIndex, !.verr = @ + heard(m0, h.verr),
                                      !.url.host = IF h.host = Some(StrHost(localhost))
                                                   THEN EmptyHost ELSE h.host])
            ELSE [m0 EXCEPT !.lastIndex = h.lastIndex, !.verr = @ + heard(m0, h.verr),
                            !.url.host = IF h.host = Some(StrHost(localhost))
                                         THEN EmptyHost ELSE h.host,
                            !.buffer = <<>>, !.state = "PathStart"]
      IN  setHost(hostParser(m.buffer, ~isSpecial(m.url), m.lastIndex))
  ELSE [m EXCEPT !.buffer = @ \o <<c(m)>>]

\* PathStartState with only "/" taken as the start of the path of a special URL
PathStartStateWithSlashOnly(m) ==
  IF isSpecial(m.url)
  THEN [validationErrorIf(c(m) = "\\", m) EXCEPT
          !.state = "Path",
          !.pointer = IF c(m) # "/" THEN @ - 1 ELSE @]
  ELSE IF ~given(m.stateOverride) /\ c(m) = "?"
  THEN [m EXCEPT !.url.query = Some(<<>>), !.state = "Query"]
  ELSE IF ~given(m.stateOverride) /\ c(m) = "#"
  THEN [m EXCEPT !.url.fragment = Some(<<>>), !.state = "Fragment"]
  ELSE IF c(m) # EOF
  THEN [m EXCEPT !.state = "Path", !.pointer = IF c(m) # "/" THEN @ - 1 ELSE @]
  ELSE m

\* PathStartState without step 1: a special URL is treated as any other
PathStartStateWithoutSpecialRule(m) ==
  IF ~given(m.stateOverride) /\ c(m) = "?"
  THEN [m EXCEPT !.url.query = Some(<<>>), !.state = "Query"]
  ELSE IF ~given(m.stateOverride) /\ c(m) = "#"
  THEN [m EXCEPT !.url.fragment = Some(<<>>), !.state = "Fragment"]
  ELSE IF c(m) # EOF
  THEN [m EXCEPT !.state = "Path", !.pointer = IF c(m) # "/" THEN @ - 1 ELSE @]
  ELSE m

PathStartState(m) ==
  IF isSpecial(m.url)
  THEN [validationErrorIf(c(m) = "\\", m) EXCEPT
          !.state = "Path",
          !.pointer = IF c(m) # "/" /\ c(m) # "\\" THEN @ - 1 ELSE @]
  ELSE IF ~given(m.stateOverride) /\ c(m) = "?"
  THEN [m EXCEPT !.url.query = Some(<<>>), !.state = "Query"]
  ELSE IF ~given(m.stateOverride) /\ c(m) = "#"
  THEN [m EXCEPT !.url.fragment = Some(<<>>), !.state = "Fragment"]
  ELSE IF c(m) # EOF
  THEN [m EXCEPT !.state = "Path", !.pointer = IF c(m) # "/" THEN @ - 1 ELSE @]
  ELSE m

\* step 1.6 of the path state
RECURSIVE stripLeadingEmpty(_)
stripLeadingEmpty(m) ==
  IF Len(m.url.path) > 1 /\ m.url.path[1] = <<>>
  THEN stripLeadingEmpty([validationError(m) EXCEPT !.url.path = Tail(@)])
  ELSE m

\* the path state taking "?" and "#" as the end of the path under a state
\* override too
PathStateIgnoringOverride(m) ==
  IF \/ c(m) = EOF \/ c(m) = "/"
     \/ (isSpecial(m.url) /\ c(m) = "\\")
     \/ (c(m) = "?" \/ c(m) = "#")
  THEN
    With(c(m) = "/" \/ (isSpecial(m.url) /\ c(m) = "\\"), LAMBDA slash :
    With(validationErrorIf(isSpecial(m.url) /\ c(m) = "\\", m), LAMBDA m0 :
    With(IF isDoubleDotPathSegment(m.buffer)
         THEN With(shorten(m0.url), LAMBDA u :
                [m0 EXCEPT !.url = IF ~slash THEN [u EXCEPT !.path = @ \o <<<<>>>>] ELSE u])
         ELSE IF isSingleDotPathSegment(m.buffer) /\ ~slash
         THEN [m0 EXCEPT !.url.path = @ \o <<<<>>>>]
         ELSE IF ~isSingleDotPathSegment(m.buffer)
         THEN IF m.url.scheme = file /\ Len(m.url.path) = 0
                 /\ isWindowsDriveLetter(m.buffer)
              THEN With(IF m.url.host # None /\ m.url.host # EmptyHost
                        THEN [validationError(m0) EXCEPT !.url.host = EmptyHost]
                        ELSE m0, LAMBDA m01 :
                     [m01 EXCEPT !.url.path = @ \o <<driveLetterQuirk(m.buffer)>>])
              ELSE [m0 EXCEPT !.url.path = @ \o <<m.buffer>>]
         ELSE m0, LAMBDA m1 :
    With([m1 EXCEPT !.buffer = <<>>], LAMBDA m2 :
    With(IF m2.url.scheme = file /\ c(m) \in {EOF, "?", "#"}
         THEN stripLeadingEmpty(m2) ELSE m2, LAMBDA m3 :
      IF c(m) = "?" THEN [m3 EXCEPT !.url.query = Some(<<>>), !.state = "Query"]
      ELSE IF c(m) = "#" THEN [m3 EXCEPT !.url.fragment = Some(<<>>), !.state = "Fragment"]
      ELSE m3)))))
  ELSE
    With(validationErrorIf(~isURLCodePoint(c(m)) /\ c(m) # "%", m), LAMBDA m0 :
    With(validationErrorIf(percentNotFollowedByHex(m), m0), LAMBDA m1 :
      [m1 EXCEPT !.buffer = @ \o utf8PercentEncode(c(m), "path")]))

PathState(m) ==
  IF \/ c(m) = EOF \/ c(m) = "/"
     \/ (isSpecial(m.url) /\ c(m) = "\\")
     \/ (~given(m.stateOverride) /\ (c(m) = "?" \/ c(m) = "#"))
  THEN
    With(c(m) = "/" \/ (isSpecial(m.url) /\ c(m) = "\\"), LAMBDA slash :
    With(validationErrorIf(isSpecial(m.url) /\ c(m) = "\\", m), LAMBDA m0 :
    With(IF isDoubleDotPathSegment(m.buffer)
         THEN With(shorten(m0.url), LAMBDA u :
                [m0 EXCEPT !.url = IF ~slash THEN [u EXCEPT !.path = @ \o <<<<>>>>] ELSE u])
         ELSE IF isSingleDotPathSegment(m.buffer) /\ ~slash
         THEN [m0 EXCEPT !.url.path = @ \o <<<<>>>>]
         ELSE IF ~isSingleDotPathSegment(m.buffer)
         THEN IF m.url.scheme = file /\ Len(m.url.path) = 0
                 /\ isWindowsDriveLetter(m.buffer)
              THEN With(IF m.url.host # None /\ m.url.host # EmptyHost
                        THEN [validationError(m0) EXCEPT !.url.host = EmptyHost]
                        ELSE m0, LAMBDA m01 :
                     [m01 EXCEPT !.url.path = @ \o <<driveLetterQuirk(m.buffer)>>])
              ELSE [m0 EXCEPT !.url.path = @ \o <<m.buffer>>]
         ELSE m0, LAMBDA m1 :
    With([m1 EXCEPT !.buffer = <<>>], LAMBDA m2 :
    With(IF m2.url.scheme = file /\ c(m) \in {EOF, "?", "#"}
         THEN stripLeadingEmpty(m2) ELSE m2, LAMBDA m3 :
      IF c(m) = "?" THEN [m3 EXCEPT !.url.query = Some(<<>>), !.state = "Query"]
      ELSE IF c(m) = "#" THEN [m3 EXCEPT !.url.fragment = Some(<<>>), !.state = "Fragment"]
      ELSE m3)))))
  ELSE
    With(validationErrorIf(~isURLCodePoint(c(m)) /\ c(m) # "%", m), LAMBDA m0 :
    With(validationErrorIf(percentNotFollowedByHex(m), m0), LAMBDA m1 :
      [m1 EXCEPT !.buffer = @ \o utf8PercentEncode(c(m), "path")]))

CannotBeABaseURLPathState(m) ==
  IF c(m) = "?" THEN [m EXCEPT !.url.query = Some(<<>>), !.state = "Query"]
  ELSE IF c(m) = "#" THEN [m EXCEPT !.url.fragment = Some(<<>>), !.state = "Fragment"]
  ELSE
    LET m0 == validationErrorIf(c(m) # EOF /\ ~isURLCodePoint(c(m)) /\ c(m) # "%", m)
        m1 == validationErrorIf(percentNotFollowedByHex(m), m0)
    IN  IF c(m) # EOF
        THEN [m1 EXCEPT !.url.path[1] = @ \o utf8PercentEncode(c(m), "c0Control")]
        ELSE m1

\* step 3.5 of the query state, for the bytes of one code point
RECURSIVE queryEncode(_, _)
queryEncode(bytes, special) ==
  IF bytes = <<>> THEN <<>>
  ELSE LET byte == Head(bytes) IN
    (IF byte < 33 \/ byte > 126 \/ byte = 34 \/ byte = 35 \/ byte = 60 \/ byte = 62
        \/ (byte = 39 /\ special)
     THEN percentEncode(byte) ELSE <<CharOf(byte)>>) \o queryEncode(Tail(bytes), special)

QueryState(m) ==
  IF ~given(m.stateOverride) /\ c(m) = "#"
  THEN [m EXCEPT !.url.fragment = Some(<<>>), !.state = "Fragment"]
  ELSE IF c(m) # EOF
  THEN
    LET m0 == validationErrorIf(~isURLCodePoint(c(m)) /\ c(m) # "%", m)
        m1 == validationErrorIf(percentNotFollowedByHex(m), m0)
    IN  [m1 EXCEPT !.url.query =
           Some(Val(@) \o queryEncode(utf8EncodeCodePoint(c(m)), isSpecial(m.url)))]
  ELSE m

\* the fragment state encoding with the path percent-encode set
FragmentStateWithPathSet(m) ==
  IF c(m) = EOF THEN m
  ELSE IF c(m) = CharOf(0) THEN validationError(m)
  ELSE
    LET m0 == validationErrorIf(~isURLCodePoint(c(m)) /\ c(m) # "%", m)
        m1 == validationErrorIf(
                c(m) = "%" /\ ~(Len(remaining(m)) >= 2
                                /\ remaining(m)[1] \in ASCIIAlphanumeric
                                /\ remaining(m)[2] \in ASCIIAlphanumeric), m0)
    IN  [m1 EXCEPT !.url.fragment = Some(Val(@) \o utf8PercentEncode(c(m), "path"))]

FragmentState(m) ==
  IF c(m) = EOF THEN m
  ELSE IF c(m) = CharOf(0) THEN validationError(m)
  ELSE
    LET m0 == validationErrorIf(~isURLCodePoint(c(m)) /\ c(m) # "%", m)
        m1 == validationErrorIf(
                c(m) = "%" /\ ~(Len(remaining(m)) >= 2
                                /\ remaining(m)[1] \in ASCIIAlphanumeric
                                /\ remaining(m)[2] \in ASCIIAlphanumeric), m0)
    IN  [m1 EXCEPT !.url.fragment = Some(Val(@) \o utf8PercentEncode(c(m), "fragment"))]

\* one run of the switch statement
parserStep(m) ==
  CASE m.state = "SchemeStart" -> SchemeStartState(m)
    [] m.state = "Scheme" -> SchemeState(m)
    [] m.state = "NoScheme" -> NoSchemeState(m)
    [] m.state = "SpecialRelativeOrAuthority" -> SpecialRelativeOrAuthorityState(m)
    [] m.state = "PathOrAuthority" -> PathOrAuthorityState(m)
    [] m.state = "Relative" -> RelativeState(m)
    [] m.state = "RelativeSlash" -> RelativeSlashState(m)
    [] m.state = "SpecialAuthoritySlashes" -> SpecialAuthoritySlashesState(m)
    [] m.state = "SpecialAuthorityIgnoreSlashes" -> SpecialAuthorityIgnoreSlashesState(m)
    [] m.state = "Authority" -> AuthorityState(m)
    [] m.state \in {"Host", "Hostname"} -> HostState(m)
    [] m.state = "Port" -> PortState(m)
    [] m.state = "File" -> FileState(m)
    [] m.state = "FileSlash" -> FileSlashState(m)
    [] m.state = "FileHost" -> FileHostState(m)
    [] m.state = "PathStart" -> PathStartState(m)
    [] m.state = "Path" -> PathState(m)
    [] m.state = "CannotBeABaseURLPath" -> CannotBeABaseURLPathState(m)
    [] m.state = "Query" -> QueryState(m)
    [] m.state = "Fragment" -> FragmentState(m)

\* the end of the loop body: "continue" skips it, at EOF the loop is left
\* and url is returned, otherwise the pointer advances
loopEnd(m) ==
  IF m.ret # "none" THEN m
  ELSE IF m.continue THEN [m EXCEPT !.continue = FALSE]
  ELSE IF eof(m) THEN returnUrl(m)
  ELSE [m EXCEPT !.pointer = @ + 1]

RECURSIVE parserLoop(_)
parserLoop(m) == IF m.ret # "none" THEN m ELSE parserLoop(loopEnd(parserStep(m)))

C0ControlOrSpace == {CharOf(n) : n \in 0..32}

RECURSIVE stripLeading(_)
stripLeading(input) ==
  IF input # <<>> /\ Head(input) \in C0ControlOrSpace THEN stripLeading(Tail(input)) ELSE input

RECURSIVE stripTrailing(_)
stripTrailing(input) ==
  IF input # <<>> /\ input[Len(input)] \in C0ControlOrSpace
  THEN stripTrailing(SubSeq(input, 1, Len(input) - 1)) ELSE input

tabOrNewline == {CharOf(9), CharOf(10), CharOf(13)}

removeAll(input, set) == SelectSeq(input, LAMBDA ch : ch \notin set)

\* the machine before the first run of the loop.  url: None when not given.
\* the parser of a URLAlgorithm constructed with (callback) or without a
\* validation error callback, before its first state
parserStartWith(callback, input, baseURL, url, stateOverride, lastIndex) ==
  LET stripped == IF url = None THEN stripTrailing(stripLeading(input)) ELSE input
      e1 == IF callback /\ stripped # input THEN 1 ELSE 0
      cleaned == removeAll(stripped, tabOrNewline)
      e2 == IF callback /\ cleaned # stripped THEN 1 ELSE 0
  IN  [input |-> cleaned, base |-> baseURL, stateOverride |-> stateOverride,
       url |-> IF url = None THEN newURL ELSE Val(url),
       state |-> IF given(stateOverride) THEN stateOverride ELSE "SchemeStart",
       pointer |-> 0, buffer |-> <<>>, atFlag |-> FALSE, arrayFlag |-> FALSE,
       passwordTokenSeenFlag |-> FALSE, continue |-> FALSE, ret |-> "none",
       lastIndex |-> lastIndex, callback |-> callback, verr |-> e1 + e2]

\* the URL object constructs its URLAlgorithm without a callback
parserStart(input, baseURL, url, stateOverride, lastIndex) ==
  parserStartWith(FALSE, input, baseURL, url, stateOverride, lastIndex)

basicURLParser(input, baseURL, url, stateOverride, lastIndex) ==
  parserLoop(parserStart(input, baseURL, url, stateOverride, lastIndex))

\* basicURLParser(input, baseURL): the record, or None on failure
parse(input, baseURL) ==
  LET result(r) == IF r.ret = "url" THEN Some(r.url) ELSE None
  IN  result(basicURLParser(input, baseURL, None, "undefined", 0))

(***************************************************************************)
(* application/x-www-form-urlencoded                                       *)
(***************************************************************************)
\* step 1 of urlEncodedParser: the input split on 0x26 (&); a last sequence
\* that is empty is not pushed
RECURSIVE splitSequences(_, _)
splitSequences(input, currentSequence) ==
  IF input = <<>> THEN (IF currentSequence # <<>> THEN <<currentSequence>> ELSE <<>>)
  ELSE IF Head(input) = 38 THEN <<currentSequence>> \o splitSequences(Tail(input), <<>>)
  ELSE splitSequences(Tail(input), currentSequence \o <<Head(input)>>)

plusToSpace(bytes) == [i \in 1..Len(bytes) |-> IF bytes[i] = 43 THEN 32 ELSE bytes[i]]

nameValue(bytes) ==
  LET eqs == {i \in 1..Len(bytes) : bytes[i] = 61}
      index == IF eqs = {} THEN 0 ELSE CHOOSE i \in eqs : \A j \in eqs : i <= j
      name == IF index # 0 THEN SubSeq(bytes, 1, index - 1) ELSE bytes
      value == IF index # 0 THEN SubSeq(bytes, index + 1, Len(bytes)) ELSE <<>>
  IN  <<utf8Decode(plusToSpace(name)), utf8Decode(plusToSpace(value))>>

urlEncodedParser(input) ==
  LET sequences == SelectSeq(splitSequences(input, <<>>), LAMBDA b : b # <<>>)
  IN  [i \in 1..Len(sequences) |-> nameValue(sequences[i])]

urlEncodedStringParser(input) == urlEncodedParser(utf8Encode(input))

RECURSIVE urlEncodedByteSerializer(_)
urlEncodedByteSerializer(input) ==
  IF input = <<>> THEN <<>>
  ELSE LET byte == Head(input) IN
    (IF byte = 32 THEN <<"+">>
     ELSE IF \/ byte \in {42, 45, 46, 95}
             \/ (byte >= 48 /\ byte <= 57)
             \/ (byte >= 65 /\ byte <= 90)
             \/ (byte >= 97 /\ byte <= 122)
     THEN <<CharOf(byte)>>
     ELSE percentEncode(byte)) \o urlEncodedByteSerializer(Tail(input))

\* urlEncodedSerializer(tuples): encoding is UTF-8
RECURSIVE urlEncodedSerializerFrom(_, _)
urlEncodedSerializerFrom(tuples, output) ==
  IF tuples = <<>> THEN output
  ELSE LET name == urlEncodedByteSerializer(utf8Encode(Head(tuples)[1]))
           value == urlEncodedByteSerializer(utf8Encode(Head(tuples)[2]))
       IN  urlEncodedSerializerFrom(Tail(tuples),
             (IF output # <<>> THEN output \o <<"&">> ELSE output)
               \o name \o <<"=">> \o value)

urlEncodedSerializer(tuples) == urlEncodedSerializerFrom(tuples, <<>>)

(***************************************************************************)
(* The strings the calls are given                                         *)
(***************************************************************************)
s_empty == <<>>
s_http_h == <<"h", "t", "t", "p", ":", "/", "/", "h", "/">>
s_file_h == <<"f", "i", "l", "e", ":", "/", "/", "h", "/", "a">>
s_file_x == <<"f", "i", "l", "e", ":", "/", "x">>
s_a_b == <<"a", ":", "b">>
s_a_h == <<"a", ":", "/", "/", "h", "/">>
s_rel == <<"a", "?", "b">>
s_http_g == <<"h", "t", "t", "p", ":", "/", "/", "g", "/", "?", "a", "=", "b">>
s_constructor == <<"c", "o", "n", "s", "t", "r", "u", "c", "t", "o", "r">>
s_a == <<"a">>
s_1 == <<"1">>
s_u == <<"u">>
s_p == <<"p">>
s_g == <<"g">>
s_g80 == <<"g", ":", "8", "0">>
s_g99999 == <<"g", ":", "9", "9", "9", "9", "9">>
s_21 == <<"2", "1">>
s_80 == <<"8", "0">>
s_443 == <<"4", "4", "3">>
s_99999 == <<"9", "9", "9", "9", "9">>
s_slash_a == <<"/", "a">>
s_q == <<"?", "a", "=", "b">>
s_f == <<"#", "f">>

\* (url, baseURL) arguments of new URL(url, baseURL); None: baseURL not given
UNDEF == "undefined"
ConstructorArgs ==
  { <<s_http_h, None>>, <<s_file_h, None>>, <<s_file_x, None>>, <<s_a_b, None>>,
    <<s_a_h, None>>, <<s_empty, None>>, <<s_rel, Some(s_http_h)>>, <<s_rel, Some(s_empty)>> }
HrefValues == {s_http_g, s_a_b, s_empty}
ProtocolValues == {http, https, ftp, file, s_a, s_constructor, s_1}
UsernameValues == {s_empty, s_u}
PasswordValues == {s_empty, s_p}
HostValues == {s_g80, s_g99999, s_empty}
HostnameValues == {s_g, s_empty}
PortValues == {s_empty, s_21, s_80, s_443, s_99999}
PathnameValues == {s_empty, s_slash_a}
SearchValues == {s_empty, s_q}
HashValues == {s_empty, s_f}

(***************************************************************************)
(* The URL object.  url is _url, list is _queryObject._list, lastIndex is  *)
(* the lastIndex of _algo._forbiddenHostCodePoint; phase is "new" before   *)
(* the constructor has returned an object and "live" after.  last records  *)
(* the call that has just ended, until the caller takes its outcome: the   *)
(* member called, the value it was given, how the call ended ("url" or     *)
(* "failure": what the basic URL parser returned; "TypeError": the call    *)
(* threw; "return": the call returned without running the parser), and     *)
(* _url and _list as they were when the call began.                        *)
(***************************************************************************)
VARIABLES url, list, lastIndex, phase, last

\* the argument and the result of an algorithm run on its own; the URL
\* object leaves both alone
VARIABLES arg, res

vars == <<url, list, lastIndex, phase, last, arg, res>>

object == <<url, list, lastIndex, phase, last>>

noArg == [input |-> <<>>, baseURL |-> None]

noRes == [stage |-> "none"]

called(op, value, ret) ==
  [op |-> op, value |-> value, baseURL |-> None, ret |-> ret, url |-> url, list |-> list,
   lastIndex |-> lastIndex]

idle == [op |-> "none", value |-> <<>>, baseURL |-> None, ret |-> "none", url |-> newURL,
         list |-> <<>>, lastIndex |-> 0]

Init ==
  /\ url = newURL
  /\ list = <<>>
  /\ lastIndex = 0
  /\ phase = "new"
  /\ last = idle
  /\ arg = noArg
  /\ res = noRes

\* new URLSearchParamsImpl(init) for a string: a leading "?" is dropped
\* and the rest parsed
newURLSearchParams(init) ==
  urlEncodedStringParser(IF startsWith(init, <<"?">>) THEN slice(init, 1) ELSE init)

\* the constructor without step 2.2
ConstructorWithoutBaseCheck(input, baseURL) ==
  /\ phase = "new"
  /\ last = idle
  /\ UNCHANGED <<arg, res>>
  /\ LET throw == /\ last' = [called("constructor", input, "TypeError")
                                   EXCEPT !.baseURL = baseURL]
                  /\ UNCHANGED <<url, list, lastIndex, phase>>
         withParsedURL(r) ==
           IF r.ret = "failure" THEN throw
           ELSE /\ url' = r.url
                /\ list' = newURLSearchParams(IF r.url.query # None THEN Val(r.url.query)
                                              ELSE <<>>)
                /\ lastIndex' = r.lastIndex
                /\ phase' = "live"
                /\ last' = [called("constructor", input, "url") EXCEPT !.baseURL = baseURL]
     IN  \E parsedBase \in {IF baseURL = None THEN None
                              ELSE Some(basicURLParser(Val(baseURL), None, None, UNDEF, 0))} :
           withParsedURL(
             basicURLParser(input,
                            IF parsedBase = None \/ Val(parsedBase).ret = "failure" THEN None
                            ELSE Some(Val(parsedBase).url),
                            None, UNDEF,
                            IF parsedBase = None THEN 0 ELSE Val(parsedBase).lastIndex))

Constructor(input, baseURL) ==
  /\ phase = "new"
  /\ last = idle
  /\ UNCHANGED <<arg, res>>
  /\ LET throw == /\ last' = [called("constructor", input, "TypeError")
                                   EXCEPT !.baseURL = baseURL]
                  /\ UNCHANGED <<url, list, lastIndex, phase>>
         withParsedURL(r) ==
           IF r.ret = "failure" THEN throw
           ELSE /\ url' = r.url
                /\ list' = newURLSearchParams(IF r.url.query # None THEN Val(r.url.query)
                                              ELSE <<>>)
                /\ lastIndex' = r.lastIndex
                /\ phase' = "live"
                /\ last' = [called("constructor", input, "url") EXCEPT !.baseURL = baseURL]
     IN  \E parsedBase \in {IF baseURL = None THEN None
                              ELSE Some(basicURLParser(Val(baseURL), None, None, UNDEF, 0))} :
           IF parsedBase # None /\ Val(parsedBase).ret = "failure" THEN throw
           ELSE withParsedURL(
                  basicURLParser(input,
                                 IF parsedBase = None THEN None ELSE Some(Val(parsedBase).url),
                                 None, UNDEF,
                                 IF parsedBase = None THEN 0 ELSE Val(parsedBase).lastIndex))

\* SetHref that leaves the list alone
SetHrefKeepsList(value) ==
  /\ phase = "live"
  /\ last = idle
  /\ UNCHANGED <<arg, res>>
  /\ LET withParsedURL(r) ==
           /\ lastIndex' = r.lastIndex
           /\ IF r.ret = "failure"
              THEN /\ last' = called("href", value, "TypeError")
                   /\ UNCHANGED <<url, list>>
              ELSE /\ url' = r.url
                   /\ UNCHANGED list
                   /\ last' = called("href", value, "url")
     IN  withParsedURL(basicURLParser(value, None, None, UNDEF, lastIndex))
  /\ UNCHANGED phase

SetHref(value) ==
  /\ phase = "live"
  /\ last = idle
  /\ UNCHANGED <<arg, res>>
  /\ LET withParsedURL(r) ==
           /\ lastIndex' = r.lastIndex
           /\ IF r.ret = "failure"
              THEN /\ last' = called("href", value, "TypeError")
                   /\ UNCHANGED <<url, list>>
              ELSE /\ url' = r.url
                   /\ list' = IF r.url.query # None
                              THEN urlEncodedStringParser(Val(r.url.query)) ELSE <<>>
                   /\ last' = called("href", value, "url")
     IN  withParsedURL(basicURLParser(value, None, None, UNDEF, lastIndex))
  /\ UNCHANGED phase

\* a setter that runs the parser on the object's record with a state override
runOverride(op, val, input, record, stateOverride) ==
  LET afterParse(r) ==
        /\ url' = r.url
        /\ lastIndex' = r.lastIndex
        /\ last' = called(op, val, r.ret)
  IN  afterParse(basicURLParser(input, None, Some(record), stateOverride, lastIndex))

noParse(op, val) ==
  /\ last' = called(op, val, "return")
  /\ UNCHANGED lastIndex

SetProtocol(val) ==
  /\ phase = "live"
  /\ last = idle
  /\ UNCHANGED <<arg, res>>
  /\ runOverride("protocol", val, val \o <<":">>, url, "SchemeStart")
  /\ UNCHANGED <<list, phase>>

setTheUsername(record, username) ==
  [record EXCEPT !.username = utf8PercentEncodeString(username, "userInfo")]

setThePassword(record, password) ==
  [record EXCEPT !.password = utf8PercentEncodeString(password, "userInfo")]

SetUsername(val) ==
  /\ phase = "live"
  /\ last = idle
  /\ UNCHANGED <<arg, res>>
  /\ IF cannotHaveAUsernamePasswordPort(url)
     THEN UNCHANGED url
     ELSE url' = setTheUsername(url, val)
  /\ noParse("username", val)
  /\ UNCHANGED <<list, phase>>

SetPassword(val) ==
  /\ phase = "live"
  /\ last = idle
  /\ UNCHANGED <<arg, res>>
  /\ IF cannotHaveAUsernamePasswordPort(url)
     THEN UNCHANGED url
     ELSE url' = setThePassword(url, val)
  /\ noParse("password", val)
  /\ UNCHANGED <<list, phase>>

SetHost(val) ==
  /\ phase = "live"
  /\ last = idle
  /\ UNCHANGED <<arg, res>>
  /\ IF url.cannotBeABaseURLFlag
     THEN noParse("host", val) /\ UNCHANGED url
     ELSE runOverride("host", val, val, url, "Host")
  /\ UNCHANGED <<list, phase>>

\* the hostname setter with the host state as state override
SetHostnameAsHost(val) ==
  /\ phase = "live"
  /\ last = idle
  /\ UNCHANGED <<arg, res>>
  /\ IF url.cannotBeABaseURLFlag
     THEN noParse("hostname", val) /\ UNCHANGED url
     ELSE runOverride("hostname", val, val, url, "Host")
  /\ UNCHANGED <<list, phase>>

SetHostname(val) ==
  /\ phase = "live"
  /\ last = idle
  /\ UNCHANGED <<arg, res>>
  /\ IF url.cannotBeABaseURLFlag
     THEN noParse("hostname", val) /\ UNCHANGED url
     ELSE runOverride("hostname", val, val, url, "Hostname")
  /\ UNCHANGED <<list, phase>>

SetPort(val) ==
  /\ phase = "live"
  /\ last = idle
  /\ UNCHANGED <<arg, res>>
  /\ IF cannotHaveAUsernamePasswordPort(url)
     THEN noParse("port", val) /\ UNCHANGED url
     ELSE IF val = <<>>
     THEN noParse("port", val) /\ url' = [url EXCEPT !.port = None]
     ELSE runOverride("port", val, val, url, "Port")
  /\ UNCHANGED <<list, phase>>

\* SetPathname without its first step
SetPathnameUnguarded(val) ==
  /\ phase = "live"
  /\ last = idle
  /\ UNCHANGED <<arg, res>>
  /\ runOverride("pathname", val, val, [url EXCEPT !.path = <<>>], "PathStart")
  /\ UNCHANGED <<list, phase>>

SetPathname(val) ==
  /\ phase = "live"
  /\ last = idle
  /\ UNCHANGED <<arg, res>>
  /\ IF url.cannotBeABaseURLFlag
     THEN noParse("pathname", val) /\ UNCHANGED url
     ELSE runOverride("pathname", val, val, [url EXCEPT !.path = <<>>], "PathStart")
  /\ UNCHANGED <<list, phase>>

\* SetSearch without the removal of the leading "?"
SetSearchKeepsMark(val) ==
  /\ phase = "live"
  /\ last = idle
  /\ UNCHANGED <<arg, res>>
  /\ IF val = <<>>
     THEN /\ url' = [url EXCEPT !.query = None]
          /\ list' = <<>>
          /\ noParse("search", val)
     ELSE /\ runOverride("search", val, val, [url EXCEPT !.query = Some(<<>>)], "Query")
          /\ list' = urlEncodedStringParser(val)
  /\ UNCHANGED phase

SetSearch(val) ==
  /\ phase = "live"
  /\ last = idle
  /\ UNCHANGED <<arg, res>>
  /\ IF val = <<>>
     THEN /\ url' = [url EXCEPT !.query = None]
          /\ list' = <<>>
          /\ noParse("search", val)
     ELSE LET input == IF startsWith(val, <<"?">>) THEN slice(val, 1) ELSE val IN
          /\ runOverride("search", val, input, [url EXCEPT !.query = Some(<<>>)], "Query")
          /\ list' = urlEncodedStringParser(input)
  /\ UNCHANGED phase

SetHash(val) ==
  /\ phase = "live"
  /\ last = idle
  /\ UNCHANGED <<arg, res>>
  /\ IF val = <<>>
     THEN noParse("hash", val) /\ url' = [url EXCEPT !.fragment = None]
     ELSE runOverride("hash", val, IF startsWith(val, <<"#">>) THEN slice(val, 1) ELSE val,
                      [url EXCEPT !.fragment = Some(<<>>)], "Fragment")
  /\ UNCHANGED <<list, phase>>

\* the caller takes the outcome of the call
Return ==
  /\ last # idle
  /\ last' = idle
  /\ UNCHANGED <<url, list, lastIndex, phase, arg, res>>

Next ==
  \/ \E a \in ConstructorArgs : Constructor(a[1], a[2])
  \/ \E v \in HrefValues : SetHref(v)
  \/ \E v \in ProtocolValues : SetProtocol(v)
  \/ \E v \in UsernameValues : SetUsername(v)
  \/ \E v \in PasswordValues : SetPassword(v)
  \/ \E v \in HostValues : SetHost(v)
  \/ \E v \in HostnameValues : SetHostname(v)
  \/ \E v \in PortValues : SetPort(v)
  \/ \E v \in PathnameValues : SetPathname(v)
  \/ \E v \in SearchValues : SetSearch(v)
  \/ \E v \in HashValues : SetHash(v)
  \/ Return

Spec == Init /\ [][Next]_vars

(***************************************************************************)
(* The getters of URLImpl                                                  *)
(***************************************************************************)
href(record) == urlSerializer(record, FALSE)

portToString(port) == numToString(port, 10)

host(record) ==
  IF record.host = None THEN <<>>
  ELSE IF record.port = None THEN hostSerializer(Val(record.host))
  ELSE hostSerializer(Val(record.host)) \o <<":">> \o portToString(Val(record.port))

hostname(record) ==
  IF record.host = None THEN <<>> ELSE hostSerializer(Val(record.host))

\* search without the test for the empty string
searchOfNonNull(record) ==
  IF record.query = None THEN <<>> ELSE <<"?">> \o Val(record.query)

search(record) ==
  IF record.query = None \/ record.query = Some(<<>>) THEN <<>>
  ELSE <<"?">> \o Val(record.query)

pathname(record) ==
  IF record.cannotBeABaseURLFlag
  THEN (IF record.path = <<>> THEN UNDEFINED ELSE record.path[1])
  ELSE IF record.path = <<>> THEN <<>>
  ELSE <<"/">> \o join(record.path, <<"/">>)

(***************************************************************************)
(* The URL object and its searchParams.  list is the list of the           *)
(* URLSearchParams object whose _urlObject is the URL object; append,      *)
(* delete, set and sort change the list and then run the update steps,     *)
(* which set the query of the URL object to the serialization of the list. *)
(***************************************************************************)
MaxPairs == 3

s_a_q == <<"a", ":", "b", "?", "b", "=", "2", "&", "a", "=", "1", "&", "b", "=", "1">>
s_mark == <<"?">>
s_marks == <<"?", "?", "x">>
s_quote == <<"a", " ", "'", CharOf(9), "#", "=", "\"">>
s_eacute == <<CharOf(233), "=", "+", "&", "z", "&", "a", "b", "=", "%", "2", "6">>
s_b == <<"b">>
s_amp == <<"&", "=">>

ParamsArgs == {<<s_http_g, None>>, <<s_a_q, None>>}
ParamsSearchValues == {s_empty, s_mark, s_q, s_marks, s_quote, s_eacute}
ParamNames == {s_a, s_b}
ParamValues == {s_1, s_amp}

\* the update steps
update(op, value, newList) ==
  /\ list' = newList
  /\ url' = [url EXCEPT !.query = Some(urlEncodedSerializer(newList))]
  /\ noParse(op, value)
  /\ UNCHANGED <<phase, arg, res>>

append(name, value) ==
  /\ phase = "live"
  /\ last = idle
  /\ Len(list) < MaxPairs
  /\ update("append", <<name, value>>, Append(list, <<name, value>>))

delete(name) ==
  /\ phase = "live"
  /\ last = idle
  /\ update("delete", <<name>>, SelectSeq(list, LAMBDA pair : pair[1] # name))

\* setFirst with the pair of the new value put at the end
setAtEnd(pairs, name, value, found) ==
  SelectSeq(pairs, LAMBDA pair : pair[1] # name) \o << <<name, value>> >>

\* the pairs of list, the first pair named name with value as its value and
\* no other pair named name
setFirst(pairs, name, value, found) ==
  LET keep == {i \in 1..Len(pairs) : pairs[i][1] # name \/ i = found}
      nth(k) == CHOOSE i \in keep : Cardinality({j \in keep : j < i}) = k - 1
  IN  [k \in 1..Cardinality(keep) |->
         IF nth(k) = found THEN <<name, value>> ELSE pairs[nth(k)]]

set(name, value) ==
  /\ phase = "live"
  /\ last = idle
  /\ Len(list) < MaxPairs \/ \E i \in 1..Len(list) : list[i][1] = name
  /\ LET named == {i \in 1..Len(list) : list[i][1] = name} IN
     update("set", <<name, value>>,
            IF named = {} THEN Append(list, <<name, value>>)
            ELSE setFirst(list, name, value, CHOOSE i \in named : \A j \in named : i <= j))

\* the UTF-16 code units of a string of the code points of the model, all
\* of which are below U+10000
codeUnits(str) == [i \in 1..Len(str) |-> CodeOf(str[i])]

\* a is before b, comparing code units
RECURSIVE lessThanUnits(_, _)
lessThanUnits(a, b) ==
  IF b = <<>> THEN FALSE
  ELSE IF a = <<>> THEN TRUE
  ELSE IF Head(a) # Head(b) THEN Head(a) < Head(b)
  ELSE lessThanUnits(Tail(a), Tail(b))

lessThan(a, b) == lessThanUnits(codeUnits(a), codeUnits(b))

\* insertPair with the pair put in front of the pairs of its name
RECURSIVE insertPairInFront(_, _)
insertPairInFront(pairs, pair) ==
  IF pairs = <<>> THEN <<pair>>
  ELSE IF ~lessThan(Head(pairs)[1], pair[1]) THEN <<pair>> \o pairs
  ELSE <<Head(pairs)>> \o insertPairInFront(Tail(pairs), pair)

\* pair put into sorted pairs behind every pair whose name is not after its name
RECURSIVE insertPair(_, _)
insertPair(pairs, pair) ==
  IF pairs = <<>> THEN <<pair>>
  ELSE IF lessThan(pair[1], Head(pairs)[1]) THEN <<pair>> \o pairs
  ELSE <<Head(pairs)>> \o insertPair(Tail(pairs), pair)

RECURSIVE sortPairs(_, _)
sortPairs(pairs, sorted) ==
  IF pairs = <<>> THEN sorted
  ELSE sortPairs(Tail(pairs), insertPair(sorted, Head(pairs)))

sort ==
  /\ phase = "live"
  /\ last = idle
  /\ update("sort", <<>>, sortPairs(list, <<>>))

NextParams ==
  \/ \E a \in ParamsArgs : Constructor(a[1], a[2])
  \/ \E v \in ParamsSearchValues : SetSearch(v)
  \/ \E n \in ParamNames, v \in ParamValues : append(n, v)
  \/ \E n \in ParamNames : delete(n)
  \/ \E n \in ParamNames, v \in ParamValues : set(n, v)
  \/ sort
  \/ Return

SpecParams == Init /\ [][NextParams]_vars

(***************************************************************************)
(* Parsing, serializing and parsing again.  arg is an input with an        *)
(* optional base; res is what has been computed from it so far.            *)
(***************************************************************************)
MaxLen == 4

Alphabet == {"c", ":", "|", "/", "."}

Tails == UNION {[1..n -> Alphabet] : n \in 0..MaxLen}

s_file3 == <<"f", "i", "l", "e", ":", "/", "/", "/">>
s_a_slash == <<"a", ":", "/">>
s_http_h_p == <<"h", "t", "t", "p", ":", "/", "/", "h", "/", "p", "/", "q">>

Prefixes == {s_empty, s_file3, s_http_h, s_a_slash}

Bases == {None, Some(s_http_h_p)}

ParseArgs == {[input |-> p \o t, baseURL |-> b] : p \in Prefixes, t \in Tails, b \in Bases}

InitParse ==
  /\ url = newURL
  /\ list = <<>>
  /\ lastIndex = 0
  /\ phase = "new"
  /\ last = idle
  /\ arg \in ParseArgs
  /\ res = [stage |-> "input"]

\* basicURLParser(input, baseURL) with baseURL the parsed base, when one is given
parseWithBase(input, baseURL) ==
  With(IF baseURL = None THEN None ELSE Some(parse(Val(baseURL), None)), LAMBDA parsedBase :
    IF parsedBase = Some(None) THEN None
    ELSE parse(input, IF parsedBase = None THEN None ELSE Val(parsedBase)))

Parse ==
  /\ res.stage = "input"
  /\ LET result(r) == IF r = None THEN [stage |-> "failure"]
                      ELSE [stage |-> "parsed", record |-> Val(r)]
     IN  res' = result(parseWithBase(arg.input, arg.baseURL))
  /\ UNCHANGED <<object, arg>>

Serialize ==
  /\ res.stage = "parsed"
  /\ res' = [stage |-> "serialized", record |-> res.record,
             output |-> urlSerializer(res.record, FALSE)]
  /\ UNCHANGED <<object, arg>>

Reparse ==
  /\ res.stage = "serialized"
  /\ res' = [stage |-> "reparsed", record |-> res.record, output |-> res.output,
             reparsed |-> parse(res.output, None),
             reparsedWithBase |-> parseWithBase(res.output, arg.baseURL)]
  /\ UNCHANGED <<object, arg>>

Reserialize ==
  /\ res.stage = "reparsed"
  /\ res' = [stage |-> "reserialized", record |-> res.record, output |-> res.output,
             reparsed |-> res.reparsed, reparsedWithBase |-> res.reparsedWithBase,
             reserialized |-> IF res.reparsedWithBase = None THEN None
                              ELSE Some(urlSerializer(Val(res.reparsedWithBase), FALSE))]
  /\ UNCHANGED <<object, arg>>

NextParse == Parse \/ Serialize \/ Reparse \/ Reserialize

SpecParse == InitParse /\ [][NextParse]_vars

\* the fields of a URL record but its blob URL entry
fields(record) ==
  <<record.scheme, record.username, record.password, record.host, record.port, record.path,
    record.query, record.fragment, record.cannotBeABaseURLFlag>>

\* C1: serialization round trip.  Whenever an input (with its optional base)
\* has parsed to a record r, parsing the serialization of r with no base
\* succeeds and gives a record equal to r in scheme, username, password,
\* host, port, path, query, fragment and cannot-be-a-base-URL flag.
RoundTrip ==
  res.stage \in {"reparsed", "reserialized"} =>
    /\ res.reparsed # None
    /\ fields(Val(res.reparsed)) = fields(res.record)

\* C2: idempotence.  Whenever an input s with base b has parsed, parsing its
\* serialization again (with b) succeeds and serializes to the same string.
Idempotence ==
  res.stage = "reserialized" =>
    /\ res.reserialized # None
    /\ Val(res.reserialized) = res.output

\* the setters that run the basic URL parser with a state override
OverrideSetters == {"protocol", "host", "hostname", "port", "pathname", "search", "hash"}

\* C3, as stated: when the parser a protocol, host, hostname, port, pathname,
\* search or hash setter ran returned failure, the record is what it was when
\* the setter was called; and no such setter throws.
SetterFailureLeavesRecord ==
  last.op \in OverrideSetters =>
    /\ last.ret # "TypeError"
    /\ last.ret = "failure" => url = last.url

\* C3, amended: when the parser a setter ran returned failure, every field
\* but the host is what it was when the setter was called, and the host has
\* changed only in the host setter (which stores the host before the Port
\* state fails); the protocol, hostname, port, pathname, search and hash
\* setters leave the whole record as it was; and no such setter throws.
SetterFailureLeavesAllButHost ==
  last.op \in OverrideSetters =>
    /\ last.ret # "TypeError"
    /\ last.ret = "failure" =>
         /\ [url EXCEPT !.host = last.url.host] = last.url
         /\ url.host # last.url.host => last.op = "host"

\* the host setter has stored a new host and the parser has then failed in
\* the Port state
HostStoredBeforePortFailure ==
  /\ last.op = "host"
  /\ last.ret = "failure"
  /\ url.host # last.url.host
  /\ url.port = last.url.port

\* C4: in every state of a URL object the port is not the default port of
\* the scheme (ftp 21, http and ws 80, https and wss 443): such a port is null.
DefaultPortIsNull ==
  phase = "live" => (url.port # None => url.port # defaultPort(url.scheme))

\* the protocol setter has made the stored port the scheme's default, and the
\* port has become null
ProtocolSetterNulledPort ==
  /\ last.op = "protocol"
  /\ last.url.port # None
  /\ last.url.port = defaultPort(url.scheme)
  /\ url.scheme # last.url.scheme
  /\ url.port = None

\* C5: when the value given to href does not parse the setter throws a
\* TypeError and the record and the list are what they were; when it parses
\* the record is the parsed record and the list the parse of its query (the
\* empty list when the query is null).
HrefSetter ==
  last.op = "href" =>
    LET setTo(r) ==
          IF r.ret = "failure"
          THEN last.ret = "TypeError" /\ url = last.url /\ list = last.list
          ELSE /\ last.ret = "url"
               /\ url = r.url
               /\ list = IF r.url.query = None THEN <<>>
                         ELSE urlEncodedStringParser(Val(r.url.query))
    IN  setTo(basicURLParser(last.value, None, None, UNDEF, last.lastIndex))

\* href has replaced a record and a non-empty list by a record with a null
\* query and an empty list
HrefReplacedList ==
  /\ last.op = "href"
  /\ last.ret = "url"
  /\ last.list # <<>>
  /\ url.query = None
  /\ list = <<>>

\* what the claims call cannot have a username/password/port
CannotHaveCredentialsOrPort(record) ==
  \/ record.host = None
  \/ record.host = EmptyHost
  \/ record.cannotBeABaseURLFlag
  \/ record.scheme = file

\* C6: on a URL that cannot have a username/password/port the username,
\* password and port setters leave the whole record as it was, whatever the
\* value.
CredentialSettersAreNoOps ==
  (last.op \in {"username", "password", "port"} /\ CannotHaveCredentialsOrPort(last.url)) =>
    url = last.url

\* the port setter was given a port on a file URL with a host
PortSetOnFileURL ==
  /\ last.op = "port"
  /\ last.value = s_80
  /\ last.url.scheme = file
  /\ last.url.host \notin {None, EmptyHost}
  /\ ~last.url.cannotBeABaseURLFlag

\* C7: on a cannot-be-a-base URL the host, hostname and pathname setters do
\* nothing: host and hostname still return "" and pathname still returns the
\* path[0] it returned before, whatever the value.
CannotBeABaseSettersAreNoOps ==
  (last.op \in {"host", "hostname", "pathname"} /\ last.url.cannotBeABaseURLFlag) =>
    /\ host(url) = <<>>
    /\ hostname(url) = <<>>
    /\ pathname(url) = pathname(last.url)
    /\ url = last.url

\* the pathname setter was given a path on a cannot-be-a-base URL
PathnameSetOnCannotBeABase ==
  /\ last.op = "pathname"
  /\ last.value = s_slash_a
  /\ last.url.cannotBeABaseURLFlag
  /\ pathname(url) = <<"b">>

\* the special schemes
SpecialSchemes == {ftp, file, http, https, ws, wss}

\* C8: the protocol setter never turns a special scheme into a non-special
\* one or a non-special scheme into a special one; when the assigned scheme
\* and the current one differ in special-ness the record is left as it was,
\* and when both are special only the scheme changes, and the port when it is
\* the new scheme's default.
ProtocolKeepsSpecialness ==
  last.op = "protocol" =>
    /\ (last.url.scheme \in SpecialSchemes) <=> (url.scheme \in SpecialSchemes)
    /\ ((last.url.scheme \in SpecialSchemes) # (last.value \in SpecialSchemes)) =>
         url = last.url
    /\ (last.url.scheme \in SpecialSchemes /\ last.value \in SpecialSchemes) =>
         /\ [url EXCEPT !.scheme = last.url.scheme, !.port = last.url.port] = last.url
         /\ \/ url.port = last.url.port
            \/ url.port = None /\ last.url.port = defaultPort(url.scheme)

\* C9: the protocol setter leaves the scheme as it was when it is given
\* "file" and the URL includes credentials or has a non-null port.
FileNeedsNoCredentialsNoPort ==
  (/\ last.op = "protocol"
   /\ last.value = file
   /\ (includesCredentials(last.url) \/ last.url.port # None)) =>
    url.scheme = last.url.scheme

\* the protocol setter was given "file" on a special URL with a port
FileSetOnURLWithPort ==
  /\ last.op = "protocol"
  /\ last.value = file
  /\ last.url.scheme = http
  /\ ~includesCredentials(last.url)
  /\ last.url.port # None
  /\ url = last.url

\* C10: in every state of a URL object a URL whose scheme is ftp, http,
\* https, ws or wss has a non-null host.
SpecialButFileHasHost ==
  (phase = "live" /\ url.scheme \in SpecialSchemes \ {file}) => url.host # None

\* the protocol setter was given "http" on a file URL with a null host, and
\* the scheme is still file
HttpSetOnFileWithoutHost ==
  /\ last.op = "protocol"
  /\ last.value = http
  /\ last.url.scheme = file
  /\ last.url.host = None
  /\ url.scheme = file

\* what the Query state appends to the query for the code points of input
RECURSIVE queryEncodeString(_, _)
queryEncodeString(input, special) ==
  IF input = <<>> THEN <<>>
  ELSE queryEncode(utf8EncodeCodePoint(Head(input)), special)
         \o queryEncodeString(Tail(input), special)

ParamsMutators == {"append", "delete", "set", "sort"}

\* name=value of each pair, the pairs joined by "&"
serializedPairs(pairs) ==
  join([i \in 1..Len(pairs) |->
          urlEncodedByteSerializer(utf8Encode(pairs[i][1])) \o <<"=">>
            \o urlEncodedByteSerializer(utf8Encode(pairs[i][2]))], <<"&">>)

MaxTuples == 2

FormStrings ==
  {<<>>, <<"a">>, <<"&">>, <<"=">>, <<"+">>, <<"%">>, <<" ">>, <<CharOf(233)>>}

FormTuples == {<<name, value>> : name \in FormStrings, value \in FormStrings}

FormArgs ==
  {[input |-> tuples, baseURL |-> None] :
     tuples \in UNION {[1..n -> FormTuples] : n \in 0..MaxTuples}}

InitForm ==
  /\ url = newURL
  /\ list = <<>>
  /\ lastIndex = 0
  /\ phase = "new"
  /\ last = idle
  /\ arg \in FormArgs
  /\ res = [stage |-> "input"]

SerializeTuples ==
  /\ res.stage = "input"
  /\ res' = [stage |-> "serialized", output |-> urlEncodedSerializer(arg.input)]
  /\ UNCHANGED <<object, arg>>

ParseOutput ==
  /\ res.stage = "serialized"
  /\ res' = [stage |-> "parsed", output |-> res.output,
             tuples |-> urlEncodedStringParser(res.output)]
  /\ UNCHANGED <<object, arg>>

NextForm == SerializeTuples \/ ParseOutput

SpecForm == InitForm /\ [][NextForm]_vars

\* C13: form-encode round trip.  For every list of (name, value) pairs,
\* with names and values that contain "&", "=", "+", "%", space or a
\* code point outside ASCII, urlEncodedStringParser of urlEncodedSerializer
\* of the list is the list.
FormRoundTrip ==
  res.stage = "parsed" => res.tuples = arg.input

\* name a is before name b in the order of UTF-16 code units
before(a, b) ==
  \E k \in 1..Len(b) :
    /\ k - 1 <= Len(a)
    /\ \A i \in 1..(k - 1) : CodeOf(a[i]) = CodeOf(b[i])
    /\ k > Len(a) \/ CodeOf(a[k]) < CodeOf(b[k])

named(pairs, name) == SelectSeq(pairs, LAMBDA pair : pair[1] = name)

occurrences(pairs, pair) == Cardinality({i \in 1..Len(pairs) : pairs[i] = pair})

\* C14: sort is stable.  After sort no pair is behind a pair whose name is
\* after its own in the order of UTF-16 code units, the pairs of each name
\* are in the order they had before, and every pair occurs as often as
\* before.
SortIsStable ==
  last.op = "sort" =>
    /\ \A i, j \in 1..Len(list) : i < j => ~before(list[j][1], list[i][1])
    /\ \A i \in 1..Len(list) : named(list, list[i][1]) = named(last.list, list[i][1])
    /\ Len(list) = Len(last.list)
    /\ \A i \in 1..Len(list) : occurrences(list, list[i]) = occurrences(last.list, list[i])

\* sort has moved a pair in front of two pairs that share a name and differ
\* in their values
SortMovedPair ==
  /\ last.op = "sort"
  /\ list # last.list
  /\ \E i, j \in 1..Len(list) :
       i < j /\ list[i][1] = list[j][1] /\ list[i][2] # list[j][2] /\ before(list[1][1], list[i][1])

others(pairs, name) == SelectSeq(pairs, LAMBDA pair : pair[1] # name)

\* C15: set(name, value).  When a pair named name exists, the first such
\* pair keeps its position and has the new value, and no other pair is
\* named name; when none exists, (name, value) is appended at the end; the
\* pairs of other names keep their relative order.
SetReplacesFirst ==
  last.op = "set" =>
    LET name == last.value[1]
        value == last.value[2]
        was == {i \in 1..Len(last.list) : last.list[i][1] = name}
    IN  /\ others(list, name) = others(last.list, name)
        /\ named(list, name) = << <<name, value>> >>
        /\ IF was = {} THEN list[Len(list)] = <<name, value>>
           ELSE \E i \in was : (\A j \in was : i <= j) /\ list[i] = <<name, value>>

\* set has given the first of two pairs of a name a new value and removed
\* the second, which was behind a pair of another name
SetRemovedSecond ==
  /\ last.op = "set"
  /\ Len(last.list) = 3
  /\ last.list[1][1] = last.value[1]
  /\ last.list[2][1] # last.value[1]
  /\ last.list[3][1] = last.value[1]
  /\ last.list[1][2] # last.value[2]
  /\ list = <<last.value, last.list[2]>>

(***************************************************************************)
(* Serializing an IPv6 host.  arg.input is the address, of 8 pieces.       *)
(***************************************************************************)
Pieces == {0, 1, 65535}

AddressArgs == {[input |-> address, baseURL |-> None] : address \in [1..8 -> Pieces]}

InitAddress ==
  /\ url = newURL
  /\ list = <<>>
  /\ lastIndex = 0
  /\ phase = "new"
  /\ last = idle
  /\ arg \in AddressArgs
  /\ res = [stage |-> "input"]

SerializeAddress ==
  /\ res.stage = "input"
  /\ res' = [stage |-> "serialized", output |-> hostSerializer(ArrHost(arg.input))]
  /\ UNCHANGED <<object, arg>>

NextAddress == SerializeAddress

SpecAddress == InitAddress /\ [][NextAddress]_vars

\* the runs of zero pieces of address that no zero piece precedes or
\* follows, each as <<index of its first piece, number of pieces>>
zeroRuns(address) ==
  {r \in (0..7) \X (1..8) :
     /\ r[1] + r[2] <= 8
     /\ \A i \in r[1]..(r[1] + r[2] - 1) : address[i + 1] = 0
     /\ r[1] = 0 \/ address[r[1]] # 0
     /\ r[1] + r[2] = 8 \/ address[r[1] + r[2] + 1] # 0}

\* the pieces from index from up to, not including, index to, in hexadecimal
\* and joined by ":"
hexPieces(address, from, to) ==
  join([i \in 1..(to - from) |-> numToString(address[from + i], 16)], <<":">>)

\* C16: IPv6 compression.  For every address of 8 pieces the serialized
\* host contains "::" at most once; when it contains it, the address has a
\* run of two or more zero pieces, and what "::" stands for is the first of
\* the longest runs: the pieces before that run and the pieces after it
\* are written out on either side.
CompressesFirstLongestRun ==
  res.stage = "serialized" =>
    LET address == arg.input
        output == res.output
        marks == {i \in 1..(Len(output) - 1) : output[i] = ":" /\ output[i + 1] = ":"}
        runs == zeroRuns(address)
    IN  /\ Cardinality(marks) <= 1
        /\ marks # {} =>
             \E r \in runs :
               /\ r[2] >= 2
               /\ \A q \in runs : q[2] < r[2] \/ (q[2] = r[2] /\ q[1] >= r[1])
               /\ output = <<"[">> \o hexPieces(address, 0, r[1]) \o <<":", ":">>
                             \o hexPieces(address, r[1] + r[2], 8) \o <<"]">>

\* 1:0:0:1:0:0:1:1, which has two longest runs, is serialized as [1::1:0:0:1:1]
CompressedFirstOfTwoRuns ==
  /\ res.stage = "serialized"
  /\ arg.input = <<1, 0, 0, 1, 0, 0, 1, 1>>
  /\ res.output = <<"[", "1", ":", ":", "1", ":", "0", ":", "0", ":", "1", ":", "1", "]">>

(***************************************************************************)
(* Parsing an input with a special scheme, and the input with "/" for each *)
(* "\" of its path.  arg.input is a prefix, which ends where the path      *)
(* begins or inside the path, and arg.tail the rest of the input.          *)
(***************************************************************************)
MaxTail == 4

SlashAlphabet == {"\\", "/", ".", "c", "|", "?", "#"}

SlashTails == UNION {[1..n -> SlashAlphabet] : n \in 0..MaxTail}

s_http_host == <<"h", "t", "t", "p", ":", "/", "/", "h">>

SlashPrefixes == {s_http_host, s_http_h, s_file3}

SlashArgs == {[input |-> p, tail |-> t, baseURL |-> None] : p \in SlashPrefixes, t \in SlashTails}

InitSlash ==
  /\ url = newURL
  /\ list = <<>>
  /\ lastIndex = 0
  /\ phase = "new"
  /\ last = idle
  /\ arg \in SlashArgs
  /\ res = [stage |-> "input"]

\* tail with "/" for each "\" in front of its first "?" or "#"
RECURSIVE slashesInPath(_)
slashesInPath(tail) ==
  IF tail = <<>> \/ Head(tail) \in {"?", "#"} THEN tail
  ELSE <<IF Head(tail) = "\\" THEN "/" ELSE Head(tail)>> \o slashesInPath(Tail(tail))

ParseInput ==
  /\ res.stage = "input"
  /\ res' = [stage |-> "parsed", record |-> parse(arg.input \o arg.tail, None)]
  /\ UNCHANGED <<object, arg>>

ParseWithSlashes ==
  /\ res.stage = "parsed"
  /\ res' = [stage |-> "both", record |-> res.record,
             withSlashes |-> parse(arg.input \o slashesInPath(arg.tail), None)]
  /\ UNCHANGED <<object, arg>>

NextSlash == ParseInput \/ ParseWithSlashes

SpecSlash == InitSlash /\ [][NextSlash]_vars

\* C17: in a special URL "\" in the path stands for "/".  For every input
\* with a special scheme, the parse of the input and the parse of the input
\* with "/" for each "\" of its path are both failure or are the same
\* record.
BackslashIsSlash ==
  res.stage = "both" => res.record = res.withSlashes

\* http://h\c\. has parsed to the record of http://h/c/.
BackslashesParsed ==
  /\ res.stage = "both"
  /\ arg.input = s_http_host
  /\ arg.tail = <<"\\", "c", "\\", ".">>
  /\ res.record # None
  /\ Val(res.record).path = <<<<"c">>, <<>>>>
  /\ res.withSlashes = res.record

\* the code points of str in front of its first "/"
RECURSIVE firstSegment(_)
firstSegment(str) ==
  IF str = <<>> \/ Head(str) = "/" THEN <<>> ELSE <<Head(str)>> \o firstSegment(Tail(str))

\* C18: Windows drive letter quirk of the Path state.  When the scheme is
\* file, the path is empty and buffer is a Windows drive letter (here: the
\* first segment of an input that begins with file:///), the segment
\* appended to the path is buffer with ":" as its second code point and
\* every other code point as it was, and the host is not a non-empty one.
DriveLetterQuirk ==
  (/\ res.stage = "parsed"
   /\ startsWith(arg.input, s_file3)
   /\ isWindowsDriveLetter(firstSegment(slice(arg.input, Len(s_file3))))) =>
    /\ res.record.path # <<>>
    /\ res.record.path[1] = [firstSegment(slice(arg.input, Len(s_file3))) EXCEPT ![2] = ":"]
    /\ res.record.host \in {None, EmptyHost}

(***************************************************************************)
(* isSpecialScheme and defaultPort of a scheme.  arg.input is a scheme as  *)
(* the Scheme state leaves it: an ASCII lowercase letter followed by ASCII *)
(* lowercase alphanumerics, "+", "-" and ".".                              *)
(***************************************************************************)
MaxScheme == 3

SchemeFirst == {"a", "w", "h"}

SchemeRest == {"s", "w", "1", "+", "-", "."}

Schemes ==
  {ftp, file, http, https, ws, wss, s_constructor}
    \cup {<<f>> \o r : f \in SchemeFirst, r \in UNION {[1..n -> SchemeRest] : n \in 0..(MaxScheme - 1)}}

SchemeArgs == {[input |-> scheme, baseURL |-> None] : scheme \in Schemes}

InitScheme ==
  /\ url = newURL
  /\ list = <<>>
  /\ lastIndex = 0
  /\ phase = "new"
  /\ last = idle
  /\ arg \in SchemeArgs
  /\ res = [stage |-> "input"]

LookUpScheme ==
  /\ res.stage = "input"
  /\ res' = [stage |-> "looked up", isSpecialScheme |-> isSpecialScheme(arg.input),
             defaultPort |-> defaultPort(arg.input)]
  /\ UNCHANGED <<object, arg>>

NextScheme == LookUpScheme

SpecScheme == InitScheme /\ [][NextScheme]_vars

\* C19: a scheme is special exactly when it is one of ftp, file, http,
\* https, ws, wss: isSpecialScheme is true of these and false of every other
\* scheme the Scheme state can produce, and defaultPort is null for every
\* other scheme.
SpecialIsOneOfSix ==
  res.stage = "looked up" =>
    /\ res.isSpecialScheme <=> arg.input \in SpecialSchemes
    /\ arg.input \notin SpecialSchemes => res.defaultPort = None

(***************************************************************************)
(* The Port state on a string of digits: in an input that is parsed, and   *)
(* as the state override of a parse that is given the record of            *)
(* http://h/.  arg.input is the input up to the port, arg.digits the       *)
(* digits.                                                                 *)
(***************************************************************************)
MaxDigits == 5

PortDigits == {"0", "3", "5", "6", "8"}

DigitStrings == UNION {[1..n -> PortDigits] : n \in 0..MaxDigits}

s_http_h_colon == <<"h", "t", "t", "p", ":", "/", "/", "h", ":">>
s_a_h_colon == <<"a", ":", "/", "/", "h", ":">>

PortArgs ==
  {[input |-> p, digits |-> d, baseURL |-> None] :
     p \in {s_http_h_colon, s_a_h_colon}, d \in DigitStrings}

InitPort ==
  /\ url = newURL
  /\ list = <<>>
  /\ lastIndex = 0
  /\ phase = "new"
  /\ last = idle
  /\ arg \in PortArgs
  /\ res = [stage |-> "input"]

\* basicURLParser(input + digits + "/")
ParsePort ==
  /\ res.stage = "input"
  /\ LET result(r) == [stage |-> "parsed", ret |-> r.ret, url |-> r.url]
     IN  res' = result(basicURLParser(arg.input \o arg.digits \o <<"/">>, None, None, UNDEF, 0))
  /\ UNCHANGED <<object, arg>>

\* basicURLParser(digits, undefined, undefined, url, ParserState.Port) with
\* url the record of input + "/"
OverridePort ==
  /\ res.stage = "input"
  /\ LET result(r) == [stage |-> "overridden", ret |-> r.ret, url |-> r.url]
     IN  res' = result(basicURLParser(arg.digits, None,
                                      Some(Val(parse(arg.input \o <<"/">>, None))), "Port", 0))
  /\ UNCHANGED <<object, arg>>

NextPort == ParsePort \/ OverridePort

SpecPort == InitPort /\ [][NextPort]_vars

\* the number that digits, which is not empty, represents in radix 10
decimal(digits) == parseInt(digits, 10)

\* C20: in the Port state digits whose value is at most 65535 are accepted,
\* and the value is stored as the port (65535 too; null when the value is
\* the default port of the scheme); digits whose value is greater make the
\* parser return failure; the port of the record is null or an integer
\* from 0 to 65535.
PortInRange ==
  res.stage \in {"parsed", "overridden"} =>
    /\ arg.digits # <<>> =>
         /\ res.ret = "failure" <=> decimal(arg.digits) > 65535
         /\ res.ret = "url" =>
              res.url.port = IF res.url.scheme = http /\ decimal(arg.digits) = 80
                             THEN None ELSE Some(decimal(arg.digits))
    /\ res.url.port = None \/ Val(res.url.port) \in 0..65535

\* http://h:65535/ has parsed to a record whose port is 65535
Port65535Stored ==
  /\ res.stage = "parsed"
  /\ arg.input = s_http_h_colon
  /\ arg.digits = <<"6", "5", "5", "3", "5">>
  /\ res.ret = "url"
  /\ res.url.port = Some(65535)

(***************************************************************************)
(* The IPv4 parser on numeric parts.  arg.parts are the parts, each a      *)
(* text with the number it denotes (its base-256 digits, least significant *)
(* first); arg.input is the texts joined by ".", with "." behind the last  *)
(* when arg.dot.                                                           *)
(***************************************************************************)
NumericParts ==
  { [text |-> <<"1">>, number |-> <<1>>],
    [text |-> <<"0", "x", "7", "f">>, number |-> <<127>>],
    [text |-> <<"0", "1", "0">>, number |-> <<8>>],
    [text |-> <<"2", "5", "5">>, number |-> <<255>>],
    [text |-> <<"0", "x", "1", "0", "0">>, number |-> <<0, 1>>],
    [text |-> <<"6", "5", "5", "3", "5">>, number |-> <<255, 255>>],
    [text |-> <<"6", "5", "5", "3", "6">>, number |-> <<0, 0, 1>>],
    [text |-> <<"1", "6", "7", "7", "7", "2", "1", "5">>, number |-> <<255, 255, 255>>],
    [text |-> <<"1", "6", "7", "7", "7", "2", "1", "6">>, number |-> <<0, 0, 0, 1>>],
    [text |-> <<"4", "2", "9", "4", "9", "6", "7", "2", "9", "5">>,
     number |-> <<255, 255, 255, 255>>],
    [text |-> <<"4", "2", "9", "4", "9", "6", "7", "2", "9", "6">>,
     number |-> <<0, 0, 0, 0, 1>>] }

IPv4Args ==
  {[input |-> join([i \in 1..Len(parts) |-> parts[i].text], <<".">>)
                \o (IF dot THEN <<".">> ELSE <<>>),
    parts |-> parts, dot |-> dot, baseURL |-> None] :
     parts \in UNION {[1..n -> NumericParts] : n \in 1..4}, dot \in BOOLEAN}

InitIPv4 ==
  /\ url = newURL
  /\ list = <<>>
  /\ lastIndex = 0
  /\ phase = "new"
  /\ last = idle
  /\ arg \in IPv4Args
  /\ res = [stage |-> "input"]

ParseIPv4 ==
  /\ res.stage = "input"
  /\ LET result(r) == [stage |-> "parsed", kind |-> r.kind, value |-> r.value]
     IN  res' = result(iPv4Parser(arg.input))
  /\ UNCHANGED <<object, arg>>

NextIPv4 == ParseIPv4

SpecIPv4 == InitIPv4 /\ [][NextIPv4]_vars

\* the length bytes of number, which is below 256^length, most significant first
octets(number, length) ==
  [i \in 1..length |-> IF length + 1 - i <= Len(number) THEN number[length + 1 - i] ELSE 0]

\* C21: IPv4 parsing of n numeric parts, 1 <= n <= 4, one trailing empty part
\* dropped.  The parser returns failure when a part in front of the last
\* exceeds 255 or the last is at least 256^(5-n); otherwise it returns the
\* number below 2^32 whose four bytes are the parts in front of the last
\* followed by the 5-n bytes of the last, which is
\* last + sum of part[i] * 256^(3-i).
IPv4OfNumericParts ==
  res.stage = "parsed" =>
    LET n == Len(arg.parts)
        fails == \/ \E i \in 1..(n - 1) : Len(arg.parts[i].number) > 1
                 \/ Len(arg.parts[n].number) > 5 - n
    IN  IF fails THEN res.kind = "failure"
        ELSE /\ res.kind = "number"
             /\ Len(res.value) <= 4
             /\ octets(res.value, 4) =
                  [i \in 1..(n - 1) |-> arg.parts[i].number[1]]
                    \o octets(arg.parts[n].number, 5 - n)

\* 0x7f.1 has parsed to 127.0.0.1
HexAndLastPartParsed ==
  /\ res.stage = "parsed"
  /\ arg.input = <<"0", "x", "7", "f", ".", "1">>
  /\ res.kind = "number"
  /\ res.value = <<1, 0, 0, 127>>

(***************************************************************************)
(* The origin of a URL.  arg.input is parsed and the origin getter of the  *)
(* URL object read.                                                        *)
(***************************************************************************)
blob == <<"b", "l", "o", "b">>

OpaqueOrigin == <<<<>>, StrHost(<<>>), None, None>>

\* origin(url) of an instance whose _forbiddenHostCodePoint has lastIndex
\* index.  ret is "TypeError" when the call throws: a blob URL with an empty
\* path has no path[0], and basicURLParser(undefined) calls replace on it.
RECURSIVE origin(_, _)
origin(record, index) ==
  IF record.scheme = blob
  THEN IF record.path = <<>>
       THEN [ret |-> "TypeError", origin |-> OpaqueOrigin]
       ELSE With(basicURLParser(record.path[1], None, None, UNDEF, index), LAMBDA r :
              IF r.ret = "failure" THEN [ret |-> "return", origin |-> OpaqueOrigin]
              ELSE origin(r.url, r.lastIndex))
  ELSE IF record.scheme \in {ftp, http, https, ws, wss}
  THEN [ret |-> "return",
        origin |-> <<record.scheme,
                     IF record.host = None THEN StrHost(<<>>) ELSE Val(record.host),
                     record.port, None>>]
  ELSE [ret |-> "return", origin |-> OpaqueOrigin]

asciiSerializationOfAnOrigin(o) ==
  IF o[1] = <<>> /\ o[2] = StrHost(<<>>) /\ o[3] = None /\ o[4] = None
  THEN <<"n", "u", "l", "l">>
  ELSE o[1] \o <<":", "/", "/">> \o hostSerializer(o[2])
         \o (IF o[3] # None THEN <<":">> \o numToString(Val(o[3]), 10) ELSE <<>>)

OriginOuter == {<<>>, blob \o <<":">>, blob \o <<":">> \o blob \o <<":">>}

OriginSchemes == {ftp, file, http, https, ws, wss, s_a, blob, s_constructor}

OriginRests ==
  { <<":", "/", "/", "h", "/">>,
    <<":", "/", "/", "h", ":", "8", "0", "8", "0", "/", "p">>,
    <<":", "/", "/", "h", ":", "8", "0">>,
    <<":", "/", "/", "[", ":", ":", "1", "]", ":", "2", "1">>,
    <<":", "/", "/", "1", ".", "2", ".", "3", ".", "4">>,
    <<":", "/", "/", "h">>,
    <<":", "x">> }

OriginArgs ==
  {[input |-> o \o s \o r, baseURL |-> None] :
     o \in OriginOuter, s \in OriginSchemes, r \in OriginRests}

InitOrigin ==
  /\ url = newURL
  /\ list = <<>>
  /\ lastIndex = 0
  /\ phase = "new"
  /\ last = idle
  /\ arg \in OriginArgs
  /\ res = [stage |-> "input"]

\* new URL(input).origin
GetOrigin ==
  /\ res.stage = "input"
  /\ LET get(o, record) == [stage |-> "origin", record |-> record, ret |-> o.ret,
                            output |-> asciiSerializationOfAnOrigin(o.origin)]
         result(r) == IF r.ret = "failure" THEN [stage |-> "failure"]
                      ELSE get(origin(r.url, r.lastIndex), r.url)
     IN  res' = result(basicURLParser(arg.input, None, None, UNDEF, 0))
  /\ UNCHANGED <<object, arg>>

NextOrigin == GetOrigin

SpecOrigin == InitOrigin /\ [][NextOrigin]_vars

NullOrigin == <<"n", "u", "l", "l">>

\* what the claim gives as the serialized origin of a record that is not a
\* blob URL
originOf(record) ==
  IF record.scheme \in {ftp, http, https, ws, wss}
  THEN record.scheme \o <<":", "/", "/">> \o hostname(record)
         \o (IF record.port # None THEN <<":">> \o portToString(Val(record.port)) ELSE <<>>)
  ELSE NullOrigin

\* the record that is left of a blob URL when path[0] is parsed for as long
\* as the result is a blob URL; None when a parse fails or there is no
\* path[0]
RECURSIVE innermost(_)
innermost(record) ==
  IF record.scheme # blob THEN Some(record)
  ELSE IF record.path = <<>> THEN None
  ELSE With(parse(record.path[1], None), LAMBDA inner :
         IF inner = None THEN None ELSE innermost(Val(inner)))

\* C22: the origin getter returns scheme + "://" + serialized host, and
\* ":" + port when the port is not null, for the schemes ftp, http, https,
\* ws and wss; for a blob URL the origin of the URL parsed from path[0],
\* and "null" when that parse fails; "null" for file and every other
\* scheme.  The origin of a URL of the five schemes is never "null".
OriginGetter ==
  res.stage = "origin" =>
    /\ res.ret = "return"
    /\ res.output = IF innermost(res.record) = None THEN NullOrigin
                    ELSE originOf(Val(innermost(res.record)))
    /\ res.record.scheme \in {ftp, http, https, ws, wss} => res.output # NullOrigin

\* ---------------------------------------------------------------------------
\* Validation errors and the validation error callback
\* ---------------------------------------------------------------------------

s_username_password == <<"u", "s", "e", "r", "n", "a", "m", "e", ":",
                         "p", "a", "s", "s", "w", "o", "r", "d">>
s_example_org == <<"e", "x", "a", "m", "p", "l", "e", ".", "o", "r", "g">>

CredentialSchemes == {http, https, s_a}
Credentials == {s_u, <<"u", ":", "p">>, <<":", "p">>, <<"u", ":">>, s_username_password}
CredentialHosts == {<<"h">>, s_example_org, <<"1", ".", "2", ".", "3", ".", "4">>}
CredentialTails == {<<>>, <<"/">>, <<":", "8", "/", "p", "?", "q", "#", "f">>}

\* scheme "://" credentials "@" host tail
OneAtInputs ==
  {s \o <<":", "/", "/">> \o cr \o <<"@">> \o h \o t :
     s \in CredentialSchemes, cr \in Credentials, h \in CredentialHosts,
     t \in CredentialTails}

AnomalousInputs ==
  {<<>>, s_rel, s_http_h, <<" ">> \o s_http_h, <<"h", "t", CharOf(9), "t", "p", ":", "/", "/", "h">>,
   <<"h", "t", "t", "p", ":", "\\", "\\", "h">>, <<"h", "t", "t", "p", ":", "h">>,
   <<"h", "t", "t", "p", ":", "/", "/", "u", "@", "v", "@", "h">>,
   <<"h", "t", "t", "p", ":", "/", "/", "u", "@">>,
   <<"h", "t", "t", "p", ":", "/", "/", "0", "x", "7", "f", ".", "1">>,
   <<"h", "t", "t", "p", ":", "/", "/", "h", ":", "x">>,
   <<"h", "t", "t", "p", ":", "/", "/", "h", "/", "%", "z", "?", "%", "#", "%">>,
   <<"/", "/", "h", "\\", "p">>, <<"f", "i", "l", "e", ":", "c", "|", "/", "x">>,
   <<"a", ":", "/", "/", "h", "^">>}

\* the record as the setter of the state hands it to the parser
prepared(record, stateOverride) ==
  IF stateOverride = "PathStart" THEN [record EXCEPT !.path = <<>>]
  ELSE IF stateOverride = "Query" THEN [record EXCEPT !.query = Some(<<>>)]
  ELSE record

CallbackOverrides ==
  {[input |-> i, baseURL |-> None, url |-> Some(prepared(Val(parse(u, None)), o)),
    stateOverride |-> o] :
     i \in {<<"u", "@", "h">>, <<"h", ":", "x">>, <<"\\", "p", "%">>, <<>>, <<"w", "s", ":">>},
     u \in {s_http_h, s_a_h}, o \in {"SchemeStart", "Host", "Port", "PathStart", "Query"}}

CallbackArgs ==
  {[input |-> i, baseURL |-> b, url |-> None, stateOverride |-> UNDEF] :
     i \in OneAtInputs \cup AnomalousInputs, b \in {None, Some(Val(parse(s_http_h_p, None)))}}
  \cup CallbackOverrides

InitCallback ==
  /\ url = newURL
  /\ list = <<>>
  /\ lastIndex = 0
  /\ phase = "new"
  /\ last = idle
  /\ arg \in CallbackArgs
  /\ res = [stage |-> "input"]

\* basicURLParser of new URLAlgorithm(callback) and of new URLAlgorithm()
ParseWithAndWithoutCallback ==
  /\ res.stage = "input"
  /\ LET run(callback) ==
           parserLoop(parserStartWith(callback, arg.input, arg.baseURL, arg.url,
                                      arg.stateOverride, 0))
         returned(r) == [result |-> IF r.ret = "failure" THEN None ELSE Some(r.url),
                         messages |-> r.verr]
     IN  res' = [stage |-> "parsed", installed |-> returned(run(TRUE)),
                 absent |-> returned(run(FALSE))]
  /\ UNCHANGED <<object, arg>>

NextCallback == ParseWithAndWithoutCallback

SpecCallback == InitCallback /\ [][NextCallback]_vars

\* C23: basicURLParser returns the same record or failure whether a validation
\* error callback is installed or absent, and an input made of a valid scheme,
\* "//", credentials with exactly one "@", a host and a path, query and
\* fragment without anomaly reports exactly one validation error.
ValidationErrorsAreSilent ==
  res.stage = "parsed" =>
    /\ res.installed.result = res.absent.result
    /\ (arg.input \in OneAtInputs /\ arg.url = None =>
          /\ res.installed.messages = 1
          /\ res.installed.result # None)

OneAtReported ==
  /\ res.stage = "parsed"
  /\ arg.input = https \o <<":", "/", "/">> \o s_username_password \o <<"@">> \o s_example_org
  /\ arg.baseURL = None
  /\ res.installed.messages = 1
  /\ res.absent.messages = 0
  /\ res.installed.result # None
  /\ Val(res.absent.result).username = <<"u", "s", "e", "r", "n", "a", "m", "e">>

\* ---------------------------------------------------------------------------
\* Special schemes and the cannot-be-a-base-URL flag
\* ---------------------------------------------------------------------------

\* C24: in every state reached by the constructor and the setters, a URL whose
\* scheme is special does not have its cannot-be-a-base-URL flag set.
SpecialIsNeverCannotBeABase ==
  phase = "live" /\ url.scheme \in SpecialSchemes => ~url.cannotBeABaseURLFlag

SpecialAfterProtocol ==
  /\ phase = "live"
  /\ last.op = "protocol"
  /\ last.url.scheme = http
  /\ url.scheme = https
  /\ ~url.cannotBeABaseURLFlag

\* ---------------------------------------------------------------------------
\* The constructor and its TypeError
\* ---------------------------------------------------------------------------

MaxInput == 3

InputAlphabet == {"a", "1", ":", "+", "/", " ", CharOf(9)}

ConstructInputs == UNION {[1..n -> InputAlphabet] : n \in 0..MaxInput}

ConstructArgs ==
  {[input |-> i, baseURL |-> b] :
     i \in ConstructInputs, b \in {None, Some(s_empty), Some(s_a_b), Some(s_http_h)}}

InitConstruct ==
  /\ url = newURL
  /\ list = <<>>
  /\ lastIndex = 0
  /\ phase = "new"
  /\ last = idle
  /\ arg \in ConstructArgs
  /\ res = [stage |-> "input"]

\* new URL(input) and new URL(input, baseURL)
NextConstruct == Constructor(arg.input, arg.baseURL)

SpecConstruct == InitConstruct /\ [][NextConstruct]_vars

\* an ASCII alpha, then ASCII alphanumerics, "+", "-" and ".", then ":"
startsWithScheme(input) ==
  \E k \in 1..Len(input) - 1 :
    /\ input[1] \in ASCIIAlpha
    /\ \A i \in 2..k : input[i] \in ASCIIAlphanumeric \cup {"+", "-", "."}
    /\ input[k + 1] = ":"

throwsExactlyOnFailure ==
  last.ret = "TypeError" <=>
    \/ last.baseURL # None /\ parse(Val(last.baseURL), None) = None
    \/ parseWithBase(last.value, last.baseURL) = None

\* the input without leading and trailing C0 control or space and without
\* tab and newline
prePassed(input) == removeAll(stripTrailing(stripLeading(input)), tabOrNewline)

\* C25 as stated: the constructor throws a TypeError exactly when parsing the
\* base or the input returns failure, and without a base every input that does
\* not start with a scheme and ":" throws.
ThrowsWithoutScheme ==
  last.op = "constructor" =>
    /\ throwsExactlyOnFailure
    /\ (last.baseURL = None /\ ~startsWithScheme(last.value) => last.ret = "TypeError")

\* C25: the constructor throws a TypeError exactly when parsing the base or
\* the input returns failure, and without a base every input that, once its
\* leading and trailing C0 control or space and its tabs and newlines are
\* removed, does not start with a scheme and ":" throws.
ThrowsWithoutSchemeAfterPrePass ==
  last.op = "constructor" =>
    /\ throwsExactlyOnFailure
    /\ (last.baseURL = None /\ ~startsWithScheme(prePassed(last.value))
          => last.ret = "TypeError")

EmptyInputThrown ==
  /\ last.op = "constructor"
  /\ last.value = <<>>
  /\ last.baseURL = None
  /\ last.ret = "TypeError"
  /\ phase = "new"

\* ---------------------------------------------------------------------------
\* The state machine of the basic URL parser, one run of the loop at a time
\* ---------------------------------------------------------------------------

MaxRun == 3

RunAlphabet == {"a", ":", "/", "@", "?", CharOf(Astral)}

RunTails == UNION {[1..n -> RunAlphabet] : n \in 0..MaxRun}

RunPrefixes == {<<"h", "t", "t", "p", ":", "/", "/">>, <<"h", "t", "t", "p", ":", "\\", "\\">>,
                <<"a", ":", "/", "/">>, <<"f", "i", "l", "e", ":">>}

RunOverrides == {"SchemeStart", "Host", "Hostname", "Port", "PathStart", "Query", "Fragment"}

RunArgs ==
  {[input |-> p \o t, baseURL |-> None, url |-> None, stateOverride |-> UNDEF] :
     p \in RunPrefixes, t \in RunTails}
  \cup
  {[input |-> t, baseURL |-> b, url |-> None, stateOverride |-> UNDEF] :
     t \in RunTails, b \in {None, Some(Val(parse(s_http_h_p, None)))}}
  \cup
  {[input |-> t, baseURL |-> None,
    url |-> Some(IF o = "Fragment" THEN [Val(parse(s_http_h, None)) EXCEPT !.fragment = Some(<<>>)]
                 ELSE prepared(Val(parse(s_http_h, None)), o)),
    stateOverride |-> o] : t \in RunTails, o \in RunOverrides}

InitRun ==
  /\ url = newURL
  /\ list = <<>>
  /\ lastIndex = 0
  /\ phase = "new"
  /\ last = idle
  /\ arg \in RunArgs
  /\ res = [stage |-> "input"]

\* steps 1 to 10 of basicURLParser
StartParser ==
  /\ res.stage = "input"
  /\ \E m \in {parserStart(arg.input, arg.baseURL, arg.url, arg.stateOverride, 0)} :
       res' = [stage |-> "running", prev |-> m, m |-> m]
  /\ UNCHANGED <<object, arg>>

\* one run of the loop of step 11: the current state, then the end of the
\* loop body
StepParser ==
  /\ res.stage = "running"
  /\ res.m.ret = "none"
  /\ \E m \in {parserStep(res.m)} :
       res' = [stage |-> "running", prev |-> res.m, m |-> loopEnd(m)]
  /\ UNCHANGED <<object, arg>>

NextRun == StartParser \/ StepParser

SpecRun == InitRun /\ [][NextRun]_vars

\* the loop runs until it returns
SpecRunFair == SpecRun /\ WF_vars(NextRun)

\* C26: the basic URL parser terminates: for every input, base and state
\* override the state machine returns a record or failure after finitely many
\* runs of its loop.
ParserTerminates == <>(res.stage = "running" /\ res.m.ret # "none")

ReturnedAfterRewind ==
  /\ res.stage = "running"
  /\ res.m.ret = "url"
  /\ res.m.atFlag
  /\ res.m.url.host = Some(StrHost(<<"a">>))
  /\ arg.input = <<"h", "t", "t", "p", ":", "/", "/", "a", "@", "a">>

\* C27: when the authority state reaches a terminator, the pointer is decreased
\* by the number of code points in buffer plus one, so that the host state
\* starts at the first code point that was buffered after the last "@" and
\* re-consumes exactly the buffered code points.
AuthorityRewindsToBuffer ==
  res.stage = "running" /\ res.prev.state = "Authority" /\ res.m.state = "Host" =>
    /\ res.m.pointer - 1 = res.prev.pointer - (Len(res.prev.buffer) + 1)
    /\ SubSeq(res.m.input, res.m.pointer + 1, res.prev.pointer) = res.prev.buffer

\* ---------------------------------------------------------------------------
\* Forbidden host code points and the host and hostname setters
\* ---------------------------------------------------------------------------

\* the forbidden host code points as the comment of _forbiddenHostCodePoint
\* lists them
ForbiddenHostCodePoints ==
  {CharOf(0), CharOf(9), CharOf(10), CharOf(13), " ", "#", "%", "/", ":", "?", "@",
   "[", "\\", "]"}

\* values the Host state buffers whole and domain to ASCII returns as they are
HostCalls == {<<"a", "@">>, <<"b", "@">>, <<"@">>, <<"a", "%">>, <<"x">>, <<" ", "y">>}

NextHosts ==
  \/ Constructor(s_http_h, None)
  \/ \E v \in HostCalls : SetHost(v)
  \/ \E v \in HostCalls : SetHostname(v)
  \/ Return

\* new URL("http://h/") and any sequence of host and hostname setter calls
SpecHosts == Init /\ [][NextHosts]_vars

\* C28: a value whose ASCII domain contains a forbidden host code point leaves
\* the host unchanged in the host and hostname setters, whatever calls were
\* made on the URL object before.
ForbiddenHostLeavesHost ==
  last.op \in {"host", "hostname"}
  /\ (\E i \in 1..Len(last.value) : last.value[i] \in ForbiddenHostCodePoints)
  => url.host = last.url.host

\* ---------------------------------------------------------------------------
\* The set of forbidden host code points
\* ---------------------------------------------------------------------------

\* "a", one ASCII code point, "b": no IPv6 literal, no IPv4 address, no
\* percent-encoded byte
HostArgs == {[input |-> <<"a", CharOf(n), "b">>, baseURL |-> None] : n \in 0..127}

InitHost ==
  /\ url = newURL
  /\ list = <<>>
  /\ lastIndex = 0
  /\ phase = "new"
  /\ last = idle
  /\ arg \in HostArgs
  /\ res = [stage |-> "input"]

\* hostParser(input) of a new URLAlgorithm
ParseHost ==
  /\ res.stage = "input"
  /\ LET parsed(h) == [stage |-> "host", isNotSpecial |-> FALSE, failure |-> h.host = None]
     IN  res' = parsed(hostParser(arg.input, FALSE, 0))
  /\ UNCHANGED <<object, arg>>

\* hostParser(input, true) of a new URLAlgorithm
ParseOpaqueHost ==
  /\ res.stage = "input"
  /\ LET parsed(h) == [stage |-> "host", isNotSpecial |-> TRUE, failure |-> h.host = None]
     IN  res' = parsed(hostParser(arg.input, TRUE, 0))
  /\ UNCHANGED <<object, arg>>

NextHost == ParseHost \/ ParseOpaqueHost

SpecHost == InitHost /\ [][NextHost]_vars

\* C29: host parsing for a special URL fails exactly when the domain contains
\* one of NUL, TAB, LF, CR, SP, "#", "%", "/", ":", "?", "@", "[", "\", "]",
\* and opaque-host parsing fails exactly for the same code points without "%".
ForbiddenSetIsExact ==
  res.stage = "host" =>
    (res.failure <=>
       arg.input[2] \in (IF res.isNotSpecial THEN ForbiddenHostCodePoints \ {"%"}
                         ELSE ForbiddenHostCodePoints))

\* ---------------------------------------------------------------------------
\* Percent decoding of byte sequences
\* ---------------------------------------------------------------------------

MaxBytes == 4

\* "%", "4", "F", "a", "z"
DecodeBytes == {37, 52, 70, 97, 122}

DecodeArgs ==
  {[input |-> b, baseURL |-> None] : b \in UNION {[1..n -> DecodeBytes] : n \in 0..MaxBytes}}

InitDecode ==
  /\ url = newURL
  /\ list = <<>>
  /\ lastIndex = 0
  /\ phase = "new"
  /\ last = idle
  /\ arg \in DecodeArgs
  /\ res = [stage |-> "input"]

\* percentDecode(input)
Decode ==
  /\ res.stage = "input"
  /\ res' = [stage |-> "decoded", output |-> percentDecode(arg.input)]
  /\ UNCHANGED <<object, arg>>

NextDecode == Decode

SpecDecode == InitDecode /\ [][NextDecode]_vars

\* 0-9, A-F, a-f
HexBytes == (48..57) \cup (65..70) \cup (97..102)

\* the byte two ASCII hex digits denote
hexByte(b1, b2) == DigitValue(CharOf(b1)) * 16 + DigitValue(CharOf(b2))

\* the bytes of input with every complete escape replaced by its byte
RECURSIVE completeEscapesDecoded(_)
completeEscapesDecoded(input) ==
  IF input = <<>> THEN <<>>
  ELSE IF Head(input) = 37 /\ Len(input) >= 3 /\ input[2] \in HexBytes /\ input[3] \in HexBytes
  THEN <<hexByte(input[2], input[3])>> \o completeEscapesDecoded(SubSeq(input, 4, Len(input)))
  ELSE <<Head(input)>> \o completeEscapesDecoded(Tail(input))

\* C30: percentDecode replaces a "%" followed by two ASCII hex digits by the
\* byte they denote and continues after them; every other byte, a "%" followed
\* by fewer than two bytes or by a byte that is no hex digit included, is
\* emitted as it is.
DecodesOnlyCompleteEscapes ==
  res.stage = "decoded" => res.output = completeEscapesDecoded(arg.input)

\* ---------------------------------------------------------------------------
\* Windows drive letters and shorten
\* ---------------------------------------------------------------------------

MaxDrive == 3

DriveAlphabet == {"c", "1", ":", "|", "."}

DriveArgs ==
  {[input |-> s, baseURL |-> None] : s \in UNION {[1..n -> DriveAlphabet] : n \in 0..MaxDrive}}

InitDrive ==
  /\ url = newURL
  /\ list = <<>>
  /\ lastIndex = 0
  /\ phase = "new"
  /\ last = idle
  /\ arg \in DriveArgs
  /\ res = [stage |-> "input"]

\* isWindowsDriveLetter(input) and isNormalizedWindowsDriveLetter(input)
ClassifyDriveLetter ==
  /\ res.stage = "input"
  /\ res' = [stage |-> "classified", letter |-> isWindowsDriveLetter(arg.input),
             normalized |-> isNormalizedWindowsDriveLetter(arg.input)]
  /\ UNCHANGED <<object, arg>>

\* shorten(url) of a file URL and of an http URL whose path is empty, the one
\* segment input, or "a" and input
ShortenPath ==
  /\ res.stage = "input"
  /\ \E scheme \in {file, http}, path \in {<<>>, <<arg.input>>, <<s_a, arg.input>>} :
       res' = [stage |-> "shortened", scheme |-> scheme, before |-> path,
               after |-> shorten([newURL EXCEPT !.scheme = scheme, !.path = path]).path]
  /\ UNCHANGED <<object, arg>>

NextDrive == ClassifyDriveLetter \/ ShortenPath

SpecDrive == InitDrive /\ [][NextDrive]_vars

\* an ASCII alpha and one of the code points of second, nothing else
twoCodePoints(str, second) == Len(str) = 2 /\ str[1] \in ASCIIAlpha /\ str[2] \in second

\* C31: isWindowsDriveLetter holds exactly for an ASCII alpha followed by ":"
\* or "|" and nothing else, isNormalizedWindowsDriveLetter exactly for an ASCII
\* alpha followed by ":" and nothing else, and shorten keeps a single segment
\* of a file URL only when it is such a two code point drive letter.
DriveLetterIsTwoCodePoints ==
  /\ res.stage = "classified" =>
       /\ res.letter <=> twoCodePoints(arg.input, {":", "|"})
       /\ res.normalized <=> twoCodePoints(arg.input, {":"})
  /\ res.stage = "shortened" /\ res.scheme = file /\ Len(res.before) = 1 =>
       (res.after = res.before <=> twoCodePoints(arg.input, {":"}))

\* C32: shorten does nothing when the path is empty, does nothing when the
\* scheme is file and the path is one segment that is a normalized Windows
\* drive letter, and otherwise removes exactly the last path segment.
ShortenRemovesLast ==
  res.stage = "shortened" =>
    res.after = IF res.before = <<>> THEN <<>>
                ELSE IF res.scheme = file /\ Len(res.before) = 1
                        /\ twoCodePoints(res.before[1], {":"})
                THEN res.before
                ELSE SubSeq(res.before, 1, Len(res.before) - 1)

(***************************************************************************)
(* Credentials in the authority state                                      *)
(***************************************************************************)
MaxUserinfo == 4

UserinfoAlphabet == {"u", ":", "@", "|"}

\* a scheme and "//", a userinfo of up to MaxUserinfo code points, "@h"
UserinfoArgs ==
  {[input |-> p \o u \o <<"@", "h">>, baseURL |-> None, userinfo |-> u] :
     p \in {<<"a", ":", "/", "/">>, <<"h", "t", "t", "p", ":", "/", "/">>},
     u \in UNION {[1..n -> UserinfoAlphabet] : n \in 0..MaxUserinfo}}

InitUserinfo ==
  /\ url = newURL
  /\ list = <<>>
  /\ lastIndex = 0
  /\ phase = "new"
  /\ last = idle
  /\ arg \in UserinfoArgs
  /\ res = [stage |-> "input"]

ParseUserinfo ==
  /\ res.stage = "input"
  /\ \E r \in {basicURLParser(arg.input, arg.baseURL, None, UNDEF, 0)} :
       res' = [stage |-> "parsed", ret |-> r.ret, username |-> r.url.username,
               password |-> r.url.password, host |-> r.url.host]
  /\ UNCHANGED <<object, arg>>

NextUserinfo == ParseUserinfo

SpecUserinfo == InitUserinfo /\ [][NextUserinfo]_vars

\* the index of the first ":" of str, Len(str) + 1 when there is none
firstColon(str) ==
  IF \E i \in 1..Len(str) : str[i] = ":"
  THEN CHOOSE i \in 1..Len(str) : str[i] = ":" /\ \A j \in 1..(i - 1) : str[j] # ":"
  ELSE Len(str) + 1

\* each code point of str as the userinfo percent-encode set leaves it:
\* ":", "@" and "|" as their escapes, "u" unchanged
userinfoEscapes(str) ==
  LET escape(ch) == IF ch = ":" THEN <<"%", "3", "A">>
                    ELSE IF ch = "@" THEN <<"%", "4", "0">>
                    ELSE IF ch = "|" THEN <<"%", "7", "C">>
                    ELSE <<ch>>
      F[i \in 0..Len(str)] == IF i = 0 THEN <<>> ELSE F[i - 1] \o escape(str[i])
  IN  F[Len(str)]

\* C33: the userinfo (everything in front of the last "@") is split at its
\* first ":" only: the percent-encoded part before it is the username, the
\* percent-encoded part after it (later ":" and earlier "@" included, as
\* "%3A" and "%40") is the password.
UserinfoSplitAtFirstColon ==
  res.stage = "parsed" =>
    /\ res.ret = "url"
    /\ res.host = Some(StrHost(<<"h">>))
    /\ res.username = userinfoEscapes(SubSeq(arg.userinfo, 1, firstColon(arg.userinfo) - 1))
    /\ res.password = userinfoEscapes(SubSeq(arg.userinfo, firstColon(arg.userinfo) + 1,
                                             Len(arg.userinfo)))

\* two "@" and two ":" in the input u@::@h: the username is u%40, the
\* password %3A
SecondAtAndColonEncoded ==
  /\ res.stage = "parsed"
  /\ arg.userinfo = <<"u", "@", ":", ":">>
  /\ res.username = <<"u", "%", "4", "0">>
  /\ res.password = <<"%", "3", "A">>

(***************************************************************************)
(* The hostname setter                                                     *)
(***************************************************************************)
HostnameURLs ==
  {<<"h", "t", "t", "p", "s", ":", "/", "/", "u", ":", "p", "@", "h", ":", "8", "/", "p", "?", "q", "#", "f">>,
   <<"a", ":", "/", "/", "u", "@", "h", ":", "8", "/", "p", "?", "q", "#", "f">>,
   <<"f", "i", "l", "e", ":", "/", "/", "h", "/", "p", "?", "q", "#", "f">>,
   s_a_h, <<"a", ":", "b", "?", "q">>}

HostnameAssignments ==
  {s_g, <<"g", ":", "9">>, <<"g", ":", "x">>, <<"g", ":">>, <<":", "9">>, s_empty,
   <<"w", "/", "x">>, <<"w", ":", "9", "/", "x">>,
   <<"[", ":", ":", "1", "]", ":", "9">>, <<"[", ":", ":", "1", "]">>}

NextHostname ==
  \/ \E i \in HostnameURLs : Constructor(i, None)
  \/ \E v \in HostnameAssignments : SetHostname(v)
  \/ Return

\* new URL(i) for one of HostnameURLs and any sequence of hostname assignments
SpecHostname == Init /\ [][NextHostname]_vars

\* the index of the first ":" of val outside square brackets, 0 when there
\* is none
colonOutsideBrackets(val) ==
  LET outside(i) == \/ \A j \in 1..i : val[j] # "["
                    \/ \E j \in 1..i : val[j] = "]"
      colons == {i \in 1..Len(val) : val[i] = ":" /\ outside(i)}
  IN  IF colons = {} THEN 0 ELSE CHOOSE i \in colons : \A j \in colons : i <= j

\* the host after hostname = val on record
hostAssigned(record, val, index) ==
  IF record.cannotBeABaseURLFlag THEN record.host
  ELSE basicURLParser(val, None, Some(record), "Hostname", index).url.host

\* hostname = val gives the host that the text in front of the ":" would give
colonIgnored ==
  LET at == colonOutsideBrackets(last.value) IN
    url.host = hostAssigned(last.url, SubSeq(last.value, 1, at - 1), last.lastIndex)

hostnameLeavesTheRest ==
  /\ url.scheme = last.url.scheme
  /\ url.username = last.url.username
  /\ url.password = last.url.password
  /\ url.port = last.url.port
  /\ url.path = last.url.path
  /\ url.query = last.url.query
  /\ url.fragment = last.url.fragment

\* C34 as stated: with state override Hostname a ":" and any text after it in
\* the assigned value are ignored, and the hostname setter leaves port,
\* scheme, username, password, path, query and fragment unchanged.
HostnameIgnoresColon ==
  last.op = "hostname" =>
    /\ hostnameLeavesTheRest
    /\ colonOutsideBrackets(last.value) > 0 => colonIgnored

\* C34: the same, the ":" being ignored when the scheme is not file and the
\* ":" follows a non-empty host.
HostnameIgnoresColonAfterHost ==
  last.op = "hostname" =>
    /\ hostnameLeavesTheRest
    /\ colonOutsideBrackets(last.value) > 1 /\ last.url.scheme # file => colonIgnored

\* hostname = "g:9" on https://u:p@h:8/p?q#f: the host is g, the port still 8
HostnameSetBeforeColon ==
  /\ last.op = "hostname"
  /\ last.value = <<"g", ":", "9">>
  /\ last.url.host = Some(StrHost(<<"h">>))
  /\ url.host = Some(StrHost(s_g))
  /\ url.port = last.url.port
  /\ url.port # None
  /\ url.scheme = https

(***************************************************************************)
(* The fragment state                                                      *)
(***************************************************************************)
MaxFragment == 3

FragmentAlphabet == {"a", " ", "%", "#", CharOf(0), CharOf(233), CharOf(Astral)}

\* "a:#", up to MaxFragment code points and "z" (so that nothing of the
\* fragment is stripped as trailing C0 control or space)
FragmentArgs ==
  {[input |-> <<"a", ":", "#">> \o t \o <<"z">>, baseURL |-> None, tail |-> t \o <<"z">>] :
     t \in UNION {[1..n -> FragmentAlphabet] : n \in 0..MaxFragment}}

InitFragment ==
  /\ url = newURL
  /\ list = <<>>
  /\ lastIndex = 0
  /\ phase = "new"
  /\ last = idle
  /\ arg \in FragmentArgs
  /\ res = [stage |-> "input"]

ParseFragment ==
  /\ res.stage = "input"
  /\ \E r \in {basicURLParser(arg.input, arg.baseURL, None, UNDEF, 0)} :
       res' = [stage |-> "parsed", ret |-> r.ret, fragment |-> r.url.fragment]
  /\ UNCHANGED <<object, arg>>

NextFragment == ParseFragment

SpecFragment == InitFragment /\ [][NextFragment]_vars

\* the code points of str as the fragment percent-encode set leaves them,
\* U+0000 becoming null
fragmentEscapes(str, null) ==
  LET escape(ch) == IF ch = " " THEN <<"%", "2", "0">>
                    ELSE IF ch = CharOf(0) THEN null
                    ELSE IF ch = CharOf(233) THEN <<"%", "C", "3", "%", "A", "9">>
                    ELSE IF ch = CharOf(Astral)
                      THEN <<"%", "F", "0", "%", "9", "F", "%", "9", "8", "%", "8", "0">>
                    ELSE <<ch>>
      F[i \in 0..Len(str)] == IF i = 0 THEN <<>> ELSE F[i - 1] \o escape(str[i])
  IN  F[Len(str)]

\* C35 as stated: the fragment is the concatenation of the encodings of all
\* code points after "#", in order, and no input code point is dropped.
FragmentEncodesEveryCodePoint ==
  res.stage = "parsed" =>
    /\ res.ret = "url"
    /\ res.fragment = Some(fragmentEscapes(arg.tail, <<"%", "0", "0">>))

\* C35: the fragment is the concatenation of the encodings of all code points
\* after "#" other than U+0000, in order; U+0000 is dropped and no other code
\* point is.
FragmentEncodesAllButNull ==
  res.stage = "parsed" =>
    /\ res.ret = "url"
    /\ res.fragment = Some(fragmentEscapes(arg.tail, <<>>))

\* a:# followed by space, U+00E9, "#" and z has the fragment %20%C3%A9#z
FragmentEncoded ==
  /\ res.stage = "parsed"
  /\ arg.tail = <<" ", CharOf(233), "#", "z">>
  /\ res.fragment = Some(<<"%", "2", "0", "%", "C", "3", "%", "A", "9", "#", "z">>)

\* ---------------------------------------------------------------------------
\* The path of a special URL
\* ---------------------------------------------------------------------------
\* C36: a URL with a special scheme has at least one path segment, after the
\* constructor, after href assignment, after pathname assignment and after
\* every other call, so its pathname getter returns a string starting with "/".
SpecialHasPath ==
  phase = "live" /\ url.scheme \in SpecialSchemes =>
    /\ Len(url.path) >= 1
    /\ Head(pathname(url)) = "/"

\* pathname = "" on a special URL leaves the one empty segment
SpecialPathnameEmptied ==
  /\ last.op = "pathname"
  /\ last.value = <<>>
  /\ last.url.path = <<s_a>>
  /\ url.scheme = http
  /\ url.path = <<<<>>>>
  /\ pathname(url) = <<"/">>

(***************************************************************************)
(* The pathname setter                                                     *)
(***************************************************************************)
MaxSegments == 2

SegmentAlphabet ==
  {<<>>, <<".">>, <<".", ".">>, <<"%", "2", "E">>, <<".", "%", "2", "e">>, s_a,
   <<"c", "|">>, <<"c", ":", "x">>}

\* up to MaxSegments segments joined by "/", and values with "?", "#" and "\"
PathAssignments ==
  {join(p, <<"/">>) : p \in UNION {[1..n -> SegmentAlphabet] : n \in 0..MaxSegments}}
  \cup {<<"a", "?", "b", "#", "c">>, <<"\\", ".", "\\", "a">>}

PathURLs ==
  {<<s_http_host, None>>,
   <<<<"h", "t", "t", "p", "s", ":", "/", "/", "u", ":", "p", "@", "h", ":", "8", "/", "p", "?", "q", "#", "f">>, None>>,
   <<<<"f", "i", "l", "e", ":", "/", "/", "h", "/", "p", "?", "q", "#", "f">>, None>>,
   <<<<"f", "i", "l", "e", ":", "/", "/", "/", "c", ":", "/", ".", ".", "/", "%", "2", "e", ".">>, None>>,
   <<<<"a", ":", "/", "/", "h">>, None>>, <<s_a_b, None>>,
   <<<<".", ".", "/", "%", "2", "E", "%", "2", "e", "/", ".", "/", "x">>, Some(s_http_h_p)>>}

PathHrefs ==
  {<<"h", "t", "t", "p", ":", "/", "/", "g">>,
   <<"a", ":", "/", ".", ".">>, <<"a", ":", "/", "/", "h", "/", "a", "/", "%", "2", "e">>}

NextPathname ==
  \/ \E a \in PathURLs : Constructor(a[1], a[2])
  \/ \E v \in PathHrefs : SetHref(v)
  \/ \E v \in PathAssignments : SetPathname(v)
  \/ Return

\* new URL for one of PathURLs and any sequence of href and pathname
\* assignments
SpecPathname == Init /\ [][NextPathname]_vars

\* a segment of val begins with an ASCII alpha followed by ":" or "|"
segmentBeginsWithDriveLetter(val) ==
  \E i \in 1..(Len(val) - 1) :
    /\ val[i] \in ASCIIAlpha
    /\ val[i + 1] \in {":", "|"}
    /\ (i = 1 \/ val[i - 1] \in {"/", "\\"})

pathnameLeavesTheRest ==
  /\ url.scheme = last.url.scheme
  /\ url.username = last.url.username
  /\ url.password = last.url.password
  /\ url.port = last.url.port
  /\ url.query = last.url.query
  /\ url.fragment = last.url.fragment

NoDotSegments ==
  phase = "live" /\ ~url.cannotBeABaseURLFlag =>
    \A i \in 1..Len(url.path) :
      LET lower == [j \in 1..Len(url.path[i]) |->
                      IF url.path[i][j] = "E" THEN "e" ELSE url.path[i][j]]
      IN  lower \notin {<<".">>, <<"%", "2", "e">>, <<".", ".">>, <<".", "%", "2", "e">>,
                        <<"%", "2", "e", ".">>, <<"%", "2", "e", "%", "2", "e">>}

\* pathname = "a/.%2e" on a URL with a path: the segment a is removed again
DotSegmentsResolved ==
  /\ last.op = "pathname"
  /\ last.value = <<"a", "/", ".", "%", "2", "e">>
  /\ last.url.path # <<>>
  /\ url.path = <<<<>>>>

(***************************************************************************)
(* IPv6 round trip                                                         *)
(***************************************************************************)
MaxAddress == 4

RoundTripPieces == {0, 171, 65535}

AddressAlphabet == {"1", "f", ":", "."}

\* strings of up to MaxAddress code points, and longer addresses with all
\* eight pieces, with an IPv4 tail and with too many digits or pieces
AddressStrings ==
  UNION {[1..n -> AddressAlphabet] : n \in 0..MaxAddress}
  \cup {<<"1", ":", "2", ":", "3", ":", "4", ":", "5", ":", "6", ":", "7", ":", "8">>,
        <<"1", ":", "2", ":", "3", ":", "4", ":", "5", ":", "6", ":", "7", ":", ":">>,
        <<"1", ":", "2", ":", "3", ":", "4", ":", "5", ":", "6", ":", "7", ":", "8", ":", "9">>,
        <<":", ":", "2", "5", "5", ".", "2", "5", "5", ".", "2", "5", "5", ".", "2", "5", "5">>,
        <<":", ":", "f", "f", "f", "f", ":", "1", ".", "2", ".", "3", ".", "4">>,
        <<"1", ":", "2", ":", "3", ":", "4", ":", "5", ":", "6", ":", "1", ".", "2", ".", "3", ".", "4">>,
        <<":", ":", "1", ".", "2", ".", "3", ".", "2", "5", "6">>,
        <<"f", "f", "f", "f", "f", ":", ":">>, <<"F", "f", "F", "f", ":", ":", "A">>}

RoundTripArgs ==
  {[kind |-> "address", input |-> <<>>, baseURL |-> None, address |-> a] :
     a \in [1..8 -> RoundTripPieces]}
  \cup {[kind |-> "string", input |-> s, baseURL |-> None,
         address |-> <<0, 0, 0, 0, 0, 0, 0, 0>>] : s \in AddressStrings}

InitRoundTrip ==
  /\ url = newURL
  /\ list = <<>>
  /\ lastIndex = 0
  /\ phase = "new"
  /\ last = idle
  /\ arg \in RoundTripArgs
  /\ res = [stage |-> "input"]

\* iPv6Parser(iPv6Serializer(address))
SerializeAndParseAddress ==
  /\ res.stage = "input"
  /\ arg.kind = "address"
  /\ \E output \in {iPv6Serializer(arg.address)} :
       res' = [stage |-> "roundtrip", output |-> output, parsed |-> iPv6Parser(output)]
  /\ UNCHANGED <<object, arg>>

\* iPv6Parser(input)
ParseAddressString ==
  /\ res.stage = "input"
  /\ arg.kind = "string"
  /\ res' = [stage |-> "parsed", parsed |-> iPv6Parser(arg.input)]
  /\ UNCHANGED <<object, arg>>

NextRoundTrip == SerializeAndParseAddress \/ ParseAddressString

SpecRoundTrip == InitRoundTrip /\ [][NextRoundTrip]_vars

\* C39: iPv6Parser(iPv6Serializer(address)) succeeds and returns the eight
\* pieces of address, and every successful iPv6Parser result has exactly eight
\* pieces, each in [0, 0xFFFF].
IPv6RoundTrip ==
  /\ res.stage = "roundtrip" => res.parsed = Some(arg.address)
  /\ res.stage \in {"roundtrip", "parsed"} /\ res.parsed # None =>
       /\ Len(Val(res.parsed)) = 8
       /\ \A i \in 1..8 : Val(res.parsed)[i] \in 0..65535

\* 0:ab:0:0:ffff:: is parsed back to the pieces it was written from
CompressedAddressParsedBack ==
  /\ res.stage = "roundtrip"
  /\ arg.address = <<0, 171, 0, 0, 65535, 0, 0, 0>>
  /\ res.output = <<"0", ":", "a", "b", ":", "0", ":", "0", ":", "f", "f", "f", "f", ":", ":">>
  /\ res.parsed = Some(arg.address)

(***************************************************************************)
(* URLs that cannot have a username, password or port                      *)
(***************************************************************************)
MaxAuthority == 3

AuthorityAlphabet == {"u", "@", ":", "8"}

\* a scheme and "//" (or "file:", "a:" alone), up to MaxAuthority code points
\* and "/"
AuthorityInputs ==
  {p \o t \o <<"/">> :
     p \in {<<"a", ":", "/", "/">>, <<"h", "t", "t", "p", ":", "/", "/">>,
            <<"f", "i", "l", "e", ":", "/", "/">>, <<"a", ":">>},
     t \in UNION {[1..n -> AuthorityAlphabet] : n \in 0..MaxAuthority}}

NextAuthority ==
  \/ \E i \in AuthorityInputs : Constructor(i, None)
  \/ \E v \in {s_a_b, <<"a", ":", "/", "/", "u", ":", "p", "@", "h", ":", "8", "/">>,
               <<"f", "i", "l", "e", ":", "/", "/", "h", "/">>} : SetHref(v)
  \/ \E v \in ProtocolValues : SetProtocol(v)
  \/ \E v \in UsernameValues : SetUsername(v)
  \/ \E v \in PasswordValues : SetPassword(v)
  \/ \E v \in HostValues : SetHost(v)
  \/ \E v \in HostnameValues : SetHostname(v)
  \/ \E v \in PortValues : SetPort(v)
  \/ Return

\* new URL of one of AuthorityInputs and any sequence of href, protocol,
\* username, password, host, hostname and port assignments
SpecAuthority == Init /\ [][NextAuthority]_vars

\* C40: in every state reached through the constructor and setter calls, a URL
\* whose host is null or empty, whose cannot-be-a-base flag is set or whose
\* scheme is file has an empty username, an empty password and a null port.
NoCredentialsWithoutHost ==
  phase = "live" /\ (url.host = None \/ url.host = EmptyHost \/ url.cannotBeABaseURLFlag
                     \/ url.scheme = file) =>
    /\ url.username = <<>>
    /\ url.password = <<>>
    /\ url.port = None

\* hostname = "" on a://u/, which has no credentials and no port: the host
\* becomes the empty host
HostEmptiedWithoutCredentials ==
  /\ last.op = "hostname"
  /\ last.value = <<>>
  /\ url.scheme = s_a
  /\ last.url.host = Some(StrHost(s_u))
  /\ url.host = EmptyHost
  /\ url.username = <<>>
  /\ url.password = <<>>
  /\ url.port = None
====
